---- MODULE Spec2Model ----
(***************************************************************************)
(* State-machine model of the task dispatch engine of project-agent:       *)
(* src/src/tasks/dispatcher.py (TaskDispatcher) together with the Task      *)
(* record of src/src/tasks/interpreter.py.                                  *)
(*                                                                          *)
(* The dispatcher runs on one asyncio event loop.  A step of the model is   *)
(* the code a coroutine runs between two suspension points: a queue get     *)
(* that has to wait, a queue put that has to wait, the await of a handler.  *)
(* asyncio.Queue.put on a full queue suspends the caller until a slot is    *)
(* free; it does not raise QueueFull (only put_nowait does).                *)
(***************************************************************************)
EXTENDS Integers, Sequences, FiniteSets, TLC

\* ------------------------------------------------------------------ bounds
\* Number of Task objects the callers create.
NumTasks == 3
\* asyncio.Queue(maxsize=100) of the shared queues, scaled down.
SharedCap == 2
\* asyncio.Queue(maxsize=50) of the per-repository queues, scaled down.
RepoCap == 1
\* Largest Task.max_retries of a task (create_task sets 3), scaled down.
MaxRetries == 2
\* The constructor argument max_workers of TaskDispatcher (default 5).
max_workers == 1
\* Worker routines that may ever be created for one queue type.
PoolPerQueue == 2
\* The timeout of wait_for_completion, in polls of one second.
WaitTimeout == 2
\* Calls of start_workers, start_all_workers and stop_workers the callers make.
MaxPoolCalls == 2
\* Tasks registered with the status tracker.
NumTracked == 1
\* Largest Task.retries the tracker's retry_task is let to reach.
RetryCap == 3
\* Largest limit the callers pass to get_pending_tasks (default 50).
MaxLimit == 2
\* Calls of create_task the callers make.
MaxCreateCalls == 4
\* Seconds the clock advances while they do.
MaxClock == 2
\* Longest command the callers type, in characters.
MaxCommandLen == 40
\* TaskInterpreter instances of the process.
NumInterpreters == 2

\* ------------------------------------------------------------------ types
Tasks == 1..NumTasks

\* Every Task object of the process: those of the callers above and one more
\* that only the callers of the stalled-handler scenario enqueue.
AllTasks == 1..(NumTasks + 1)

None == 0

QueueType == {"general", "critical", "background", "repo_specific"}

\* Iteration order of the QueueType enum.
QueueTypeOrder == <<"general", "critical", "background", "repo_specific">>

Repos == {"r1"}

NoRepo == "none"

TaskType == {"fix_bug", "code_review"}

TaskStatus == {"pending", "queued", "in_progress", "completed", "failed", "cancelled"}

WorkerIds == QueueType \X (1..PoolPerQueue)

\* The tasks the callers register with the TaskStatusTracker.
TrackedTasks == 1..NumTracked

Interpreters == 1..NumInterpreters

\* No ParsedTask yet.
NotParsed == [task_type |-> "none", priority |-> "none", target_files |-> {}]

Min(a, b) == IF a < b THEN a ELSE b

\* The task_type of the t-th task the callers create (an input of the model).
TypeOf(t) == IF t % 2 = 1 THEN "fix_bug" ELSE "code_review"

\* The max_retries of the t-th task the callers create (an input of the model).
MaxRetriesOf(t) == 1 + (t % MaxRetries)

\* A Task as create_task returns it: PENDING, no timestamps, retries 0.
NewTask(t) ==
    [task_type |-> TypeOf(t), status |-> "pending", retries |-> 0,
     max_retries |-> MaxRetriesOf(t), error |-> "null",
     started_at |-> FALSE, completed_at |-> FALSE, result |-> FALSE]

\* A slot of the pool before start_workers has created its worker.
NoWorker ==
    [pc |-> "none", registered |-> FALSE, status |-> "none",
     current_task |-> None, tasks_completed |-> 0, tasks_failed |-> 0,
     dequeued |-> None]

VARIABLES
    queues,           \* self.queues: QueueType -> FIFO of tasks
    repo_queues,      \* self.repo_queues: repository name -> FIFO of tasks
    task_handlers,    \* self.task_handlers: TaskType -> handler or None
    completed_tasks,  \* self.completed_tasks
    failed_tasks,     \* self.failed_tasks
    running,          \* self.running
    workers,          \* worker id -> WorkerInfo and the position of worker_loop
    worker_tasks,     \* keys of self.worker_tasks
    task,             \* the Task objects, by reference
    enq,              \* per task: the caller's enqueue call and its arguments
    taken,            \* tasks a direct dequeue call has returned to its caller
    attempts,         \* per task: how many times its handler has been invoked
    wait,             \* the wait_for_completion call, if one is in progress
    pool_calls,       \* how many pool calls the callers have made
    active_tasks,     \* TaskStatusTracker.active_tasks: the registered tasks
    peek,             \* the last get_pending_tasks call: its limit and result
    scan,             \* the get_next_task call, if one is in progress
    task_counter,     \* TaskInterpreter instance -> self._task_counter
    clock,            \* datetime.utcnow(), in seconds
    ids,              \* the ids create_task has returned, in call order
    command,          \* the command string handed to interpret
    parsed,           \* the ParsedTask interpret returned for it
    execution,        \* the TaskExecutor.execute call, if one is in progress
    executions        \* what the execute calls have returned, in call order

\* State outside the dispatcher: of the status tracker, of the callers of
\* the dispatcher's query operations, of the interpreter.
tracker_vars == <<active_tasks>>

caller_vars == <<peek, scan>>

interpreter_vars == <<task_counter, clock, ids, command, parsed>>

executor_vars == <<execution, executions>>

vars == <<queues, repo_queues, task_handlers, completed_tasks, failed_tasks,
          running, workers, worker_tasks, task, enq, taken, attempts, wait,
          pool_calls, tracker_vars, caller_vars, interpreter_vars,
          executor_vars>>

\* ------------------------------------------------------------------ queues
\* The queue an enqueue call puts on: the repository queue only when
\* queue_type is REPO_SPECIFIC and repo_name is given.
RoutesToRepo(queue_type, repo_name) ==
    queue_type = "repo_specific" /\ repo_name # NoRepo

\* The tasks of the queue enqueue(task, queue_type, repo_name) puts on; a
\* repository queue is created empty on first use.
TargetItems(queue_type, repo_name) ==
    IF RoutesToRepo(queue_type, repo_name)
    THEN IF repo_name \in DOMAIN repo_queues THEN repo_queues[repo_name] ELSE <<>>
    ELSE queues[queue_type]

TargetCap(queue_type, repo_name) ==
    IF RoutesToRepo(queue_type, repo_name) THEN RepoCap ELSE SharedCap

\* asyncio.Queue.full()
TargetFull(queue_type, repo_name) ==
    Len(TargetItems(queue_type, repo_name)) >= TargetCap(queue_type, repo_name)

\* A put that places the new task at the head of the queue.
SharedAfterPutFront(queue_type, t) ==
    [queues EXCEPT ![queue_type] = <<t>> \o @]

\* The shared queues after put_nowait(t) on one of them.
SharedAfterPut(queue_type, t) ==
    [queues EXCEPT ![queue_type] = Append(@, t)]

\* The repository queues after repo_name's queue exists and holds items.
RepoWith(repo_name, items) ==
    [r \in (DOMAIN repo_queues) \cup {repo_name} |->
        IF r = repo_name THEN items ELSE repo_queues[r]]

\* asyncio.Queue.get_nowait(): the item at the head.
QueueHead(items) == Head(items)

\* A get that returns the head and leaves it in the queue.
QueueRestKept(items) == items

\* The queue after get_nowait().
QueueRest(items) == Tail(items)


\* A retry that is put on the CRITICAL queue.
DefaultQueueTypeCritical == "critical"

\* enqueue's default for queue_type, which the retry's self.enqueue(task) uses.
DefaultQueueType == "general"

\* ------------------------------------------------------------------ Init
\* TaskDispatcher.__init__: empty queues, no repository queue, no worker, no
\* handler, empty histories, running False; the callers' tasks not yet enqueued.
Init ==
    /\ queues = [q \in QueueType |-> <<>>]
    /\ repo_queues = <<>>
    /\ task_handlers = [ty \in TaskType |-> "none"]
    /\ completed_tasks = <<>>
    /\ failed_tasks = <<>>
    /\ running = FALSE
    /\ workers = [w \in WorkerIds |-> NoWorker]
    /\ worker_tasks = {}
    /\ task = [t \in AllTasks |-> NewTask(t)]
    /\ enq = [t \in AllTasks |-> [call |-> "none", queue_type |-> "general", repo_name |-> NoRepo]]
    /\ taken = {}
    /\ attempts = [t \in AllTasks |-> 0]
    /\ wait = [state |-> "idle", polls |-> 0]
    /\ pool_calls = 0
    /\ active_tasks = {}
    /\ peek = [limit |-> 0, result |-> <<>>]
    /\ scan = [state |-> "idle", priority |-> <<>>, order |-> <<>>, result |-> None]
    /\ task_counter = [i \in Interpreters |-> 0]
    /\ clock = 0
    /\ ids = <<>>
    /\ command = <<>>
    /\ parsed = NotParsed
    /\ execution = [state |-> "idle", task |-> None, invoked |-> 0]
    /\ executions = <<>>

\* ------------------------------------------------------------------ register_handler
RegisterHandler(ty) ==
    /\ task_handlers' = [task_handlers EXCEPT ![ty] = "handler"]
    /\ UNCHANGED <<executor_vars, tracker_vars, caller_vars, interpreter_vars>>
    /\ UNCHANGED <<queues, repo_queues, completed_tasks, failed_tasks, running,
                   workers, worker_tasks, task, enq, taken, attempts, wait, pool_calls>>

\* ------------------------------------------------------------------ enqueue
\* What the call of enqueue does when it reaches put: with a free slot put
\* returns at once and enqueue returns True; on a full queue put suspends the
\* caller (the except QueueFull branch, which would return False, is never
\* taken because put does not raise QueueFull).
EnqueueOutcome(full) == IF full THEN "blocked" ELSE "true"

\* The queues once put(t) has completed on the target of the call.
PutOn(queue_type, repo_name, t) ==
    IF RoutesToRepo(queue_type, repo_name)
    THEN /\ repo_queues' = RepoWith(repo_name,
                                    Append(TargetItems(queue_type, repo_name), t))
         /\ UNCHANGED queues
    ELSE /\ queues' = SharedAfterPut(queue_type, t)
         /\ UNCHANGED repo_queues

\* The queues while put(t) waits: only the lazily created repository queue.
PutWaits(queue_type, repo_name) ==
    /\ repo_queues' = IF RoutesToRepo(queue_type, repo_name)
                      THEN RepoWith(repo_name, TargetItems(queue_type, repo_name))
                      ELSE repo_queues
    /\ UNCHANGED queues

\* A caller calls enqueue(task, queue_type, repo_name) with a task it created.
Enqueue(t, queue_type, repo_name) ==
    /\ enq[t].call = "none"
    /\ LET outcome == EnqueueOutcome(TargetFull(queue_type, repo_name)) IN
       /\ enq' = [enq EXCEPT ![t] = [call |-> outcome, queue_type |-> queue_type,
                                     repo_name |-> repo_name]]
       /\ IF outcome = "true"
          THEN PutOn(queue_type, repo_name, t)
          ELSE IF outcome = "blocked"
               THEN PutWaits(queue_type, repo_name)
               ELSE UNCHANGED <<queues, repo_queues>>
    /\ UNCHANGED <<executor_vars, tracker_vars, caller_vars, interpreter_vars>>
    /\ UNCHANGED <<task_handlers, completed_tasks, failed_tasks, running,
                   workers, worker_tasks, task, taken, attempts, wait, pool_calls>>

\* A caller suspended in put is resumed once its queue has a free slot.
EnqueueResume(t) ==
    /\ enq[t].call = "blocked"
    /\ ~TargetFull(enq[t].queue_type, enq[t].repo_name)
    /\ PutOn(enq[t].queue_type, enq[t].repo_name, t)
    /\ enq' = [enq EXCEPT ![t].call = "true"]
    /\ UNCHANGED <<executor_vars, tracker_vars, caller_vars, interpreter_vars>>
    /\ UNCHANGED <<task_handlers, completed_tasks, failed_tasks, running,
                   workers, worker_tasks, task, taken, attempts, wait, pool_calls>>

\* ------------------------------------------------------------------ dequeue
\* What dequeue(queue_type) returns: the head of the shared queue of that
\* type, or None when the one-second wait times out on an empty queue.
DequeueResult(queue_type) ==
    IF queues[queue_type] = <<>> THEN None ELSE QueueHead(queues[queue_type])

\* A caller other than a worker calls dequeue(queue_type) and gets a task.
Dequeue(queue_type) ==
    /\ DequeueResult(queue_type) # None
    /\ taken' = taken \cup {DequeueResult(queue_type)}
    /\ queues' = [queues EXCEPT ![queue_type] = QueueRest(@)]
    /\ UNCHANGED <<executor_vars, tracker_vars, caller_vars, interpreter_vars>>
    /\ UNCHANGED <<repo_queues, task_handlers, completed_tasks, failed_tasks,
                   running, workers, worker_tasks, task, enq, attempts, wait, pool_calls>>

\* ------------------------------------------------------------------ process_task
\* self.task_handlers.get(task.task_type)
HasHandler(ty) == task_handlers[ty] # "none"

\* process_task, first lines: IN_PROGRESS and started_at.
Started(tk) == [tk EXCEPT !.status = "in_progress", !.started_at = TRUE]

\* A missing handler treated like a raising one: counted and queued again.
FailNoHandlerRetried(tk) ==
    [tk EXCEPT !.error = "no_handler", !.retries = @ + 1,
               !.status = IF tk.retries + 1 < tk.max_retries
                          THEN "queued" ELSE "failed"]

\* process_task without a handler: error text and FAILED.
FailNoHandler(tk) == [tk EXCEPT !.error = "no_handler", !.status = "failed"]

\* process_task, handler returned: COMPLETED, completed_at, result.
Succeeded(tk) ==
    [tk EXCEPT !.status = "completed", !.completed_at = TRUE, !.result = TRUE]

\* The retry test off by one: one attempt more than max_retries.
ShouldRetryOnceMore(retries, max_retries) == retries <= max_retries

\* process_task, handler raised: the retry test on the incremented counter.
ShouldRetry(retries, max_retries) == retries < max_retries

\* process_task, handler raised with str(e) = text: FAILED, error text,
\* retries + 1, and QUEUED again when a retry is due.  Every Exception takes
\* this path, whatever its class.
RaisedWith(tk, text) ==
    LET failed == [tk EXCEPT !.status = "failed", !.error = text,
                             !.retries = @ + 1]
    IN IF ShouldRetry(failed.retries, failed.max_retries)
       THEN [failed EXCEPT !.status = "queued"]
       ELSE failed

Raised(tk) == RaisedWith(tk, "exception")

\* A worker loop that keeps current_task after process_task has returned.
WorkerAfterStillHolding(wk, success) ==
    [wk EXCEPT !.tasks_completed = IF success THEN @ + 1 ELSE @,
               !.tasks_failed = IF success THEN @ ELSE @ + 1,
               !.status = "running",
               !.pc = IF running THEN "idle" ELSE "exited"]

\* A worker loop that counts no failed task.
WorkerAfterUncounted(wk, success) ==
    [wk EXCEPT !.tasks_completed = IF success THEN @ + 1 ELSE @,
               !.current_task = None,
               !.status = "running",
               !.pc = IF running THEN "idle" ELSE "exited"]

\* worker_loop after process_task has returned: the counter, current_task
\* cleared, and the test of the while condition.
WorkerAfter(wk, success) ==
    [wk EXCEPT !.tasks_completed = IF success THEN @ + 1 ELSE @,
               !.tasks_failed = IF success THEN @ ELSE @ + 1,
               !.current_task = None,
               !.status = "running",
               !.pc = IF running THEN "idle" ELSE "exited"]

\* ------------------------------------------------------------------ worker_loop
\* The event loop runs routines that are ready in the order they were made
\* ready; new workers are created in the order of the enum, slot by slot.
QueueRank(queue_type) ==
    CHOOSE i \in 1..Len(QueueTypeOrder) : QueueTypeOrder[i] = queue_type

Earlier(v, w) ==
    \/ QueueRank(v[1]) < QueueRank(w[1])
    \/ v[1] = w[1] /\ v[2] < w[2]

\* The worker routine runs for the first time: it registers its WorkerInfo
\* and tests the while condition.
WorkerStart(w) ==
    /\ workers[w].pc = "created"
    /\ \A v \in WorkerIds : workers[v].pc = "created" => ~Earlier(v, w)
    /\ workers' = [workers EXCEPT ![w].registered = TRUE,
                                  ![w].status = "running",
                                  ![w].pc = IF running THEN "idle" ELSE "exited"]
    /\ UNCHANGED <<executor_vars, tracker_vars, caller_vars, interpreter_vars>>
    /\ UNCHANGED <<queues, repo_queues, task_handlers, completed_tasks,
                   failed_tasks, running, worker_tasks, task, enq, taken,
                   attempts, wait, pool_calls>>

\* The worker's dequeue returns a task; the worker takes it and process_task
\* runs up to the await of the handler, or to its end when there is none.
ProcessTaskBegin(w, wk, t) ==
    IF HasHandler(task[t].task_type)
    THEN /\ task' = [task EXCEPT ![t] = Started(@)]
         /\ workers' = [workers EXCEPT ![w] = [wk EXCEPT !.current_task = t,
                                                        !.status = "processing",
                                                        !.pc = "handler"]]
         /\ attempts' = [attempts EXCEPT ![t] = @ + 1]
         /\ UNCHANGED failed_tasks
    ELSE /\ task' = [task EXCEPT ![t] = FailNoHandler(Started(@))]
         /\ failed_tasks' = Append(failed_tasks, t)
         /\ workers' = [workers EXCEPT ![w] = WorkerAfter(wk, FALSE)]
         /\ UNCHANGED attempts

\* One pass of the worker loop up to the await of the handler, with a
\* dequeue that hands the task over in the step that takes it (wait_for of
\* Python 3.12 and later awaits queue.get() directly).
WorkerDequeue(w) ==
    /\ workers[w].pc = "idle"
    /\ running
    /\ DequeueResult(w[1]) # None
    /\ queues' = [queues EXCEPT ![w[1]] = QueueRest(@)]
    /\ ProcessTaskBegin(w, workers[w], DequeueResult(w[1]))
    /\ UNCHANGED <<executor_vars, tracker_vars, caller_vars, interpreter_vars>>
    /\ UNCHANGED <<repo_queues, task_handlers, completed_tasks, running,
                   worker_tasks, enq, taken, wait, pool_calls>>

\* dequeue under Python 3.11: wait_for runs queue.get() as a task of its
\* own, which takes the item off the queue; the worker routine is woken
\* through the event loop and has not yet seen the task.
DequeueGet(w) ==
    /\ workers[w].pc = "idle"
    /\ running
    /\ DequeueResult(w[1]) # None
    /\ queues' = [queues EXCEPT ![w[1]] = QueueRest(@)]
    /\ workers' = [workers EXCEPT ![w].pc = "delivering",
                                  ![w].dequeued = DequeueResult(w[1])]
    /\ UNCHANGED <<executor_vars, tracker_vars, caller_vars, interpreter_vars>>
    /\ UNCHANGED <<repo_queues, task_handlers, completed_tasks, failed_tasks,
                   running, worker_tasks, task, enq, taken, attempts, wait,
                   pool_calls>>

\* The worker routine resumes with the task that dequeue returns, and runs
\* up to the await of the handler.
DequeueDeliver(w) ==
    /\ workers[w].pc = "delivering"
    /\ ProcessTaskBegin(w, [workers[w] EXCEPT !.dequeued = None],
                        workers[w].dequeued)
    /\ UNCHANGED <<executor_vars, tracker_vars, caller_vars, interpreter_vars>>
    /\ UNCHANGED <<queues, repo_queues, task_handlers, completed_tasks, running,
                   worker_tasks, enq, taken, wait, pool_calls>>

\* The awaited handler returns.
HandlerReturn(w) ==
    /\ workers[w].pc = "handler"
    /\ LET t == workers[w].current_task IN
       /\ task' = [task EXCEPT ![t] = Succeeded(@)]
       /\ completed_tasks' = Append(completed_tasks, t)
    /\ workers' = [workers EXCEPT ![w] = WorkerAfter(@, TRUE)]
    /\ UNCHANGED <<executor_vars, tracker_vars, caller_vars, interpreter_vars>>
    /\ UNCHANGED <<queues, repo_queues, task_handlers, failed_tasks, running,
                   worker_tasks, enq, taken, attempts, wait, pool_calls>>

\* The awaited handler raises an exception whose text is text: terminal failure, or the retry's
\* self.enqueue(task), which puts on GENERAL or suspends when GENERAL is full.
HandlerRaiseWith(w, text) ==
    /\ workers[w].pc = "handler"
    /\ LET t == workers[w].current_task
           after == RaisedWith(task[t], text)
       IN
       /\ task' = [task EXCEPT ![t] = after]
       /\ IF after.status = "queued"
          THEN /\ UNCHANGED failed_tasks
               /\ IF EnqueueOutcome(TargetFull(DefaultQueueType, NoRepo)) = "blocked"
                  THEN /\ workers' = [workers EXCEPT ![w].pc = "putting"]
                       /\ UNCHANGED queues
                  ELSE /\ workers' = [workers EXCEPT ![w] = WorkerAfter(@, FALSE)]
                       /\ queues' = IF EnqueueOutcome(TargetFull(DefaultQueueType, NoRepo)) = "true"
                                    THEN SharedAfterPut(DefaultQueueType, t)
                                    ELSE queues
          ELSE /\ failed_tasks' = Append(failed_tasks, t)
               /\ workers' = [workers EXCEPT ![w] = WorkerAfter(@, FALSE)]
               /\ UNCHANGED queues
    /\ UNCHANGED <<executor_vars, tracker_vars, caller_vars, interpreter_vars>>
    /\ UNCHANGED <<repo_queues, task_handlers, completed_tasks, running,
                   worker_tasks, enq, taken, attempts, wait, pool_calls>>

\* The awaited handler fails in its work.
HandlerRaise(w) == HandlerRaiseWith(w, "exception")

\* _handle_fix_bug raises ValueError("Repository not specified for bug fix")
\* before doing anything: the validation error of a task without repository.
HandlerRaiseValidation(w) ==
    /\ workers[w].pc = "handler"
    /\ task[workers[w].current_task].task_type = "fix_bug"
    /\ HandlerRaiseWith(w, "validation")

\* A worker suspended in the retry's put is resumed once GENERAL has a slot.
RetryResume(w) ==
    /\ workers[w].pc = "putting"
    /\ ~TargetFull(DefaultQueueType, NoRepo)
    /\ queues' = SharedAfterPut(DefaultQueueType, workers[w].current_task)
    /\ workers' = [workers EXCEPT ![w] = WorkerAfter(@, FALSE)]
    /\ UNCHANGED <<executor_vars, tracker_vars, caller_vars, interpreter_vars>>
    /\ UNCHANGED <<repo_queues, task_handlers, completed_tasks, failed_tasks,
                   running, worker_tasks, task, enq, taken, attempts, wait, pool_calls>>

\* ------------------------------------------------------------------ the pool
\* num_workers or min(2, self.max_workers)
WorkerCount(num_workers) ==
    IF num_workers = 0 THEN Min(2, max_workers) ELSE num_workers

FreeSlots(ws, queue_type) ==
    {i \in 1..PoolPerQueue : ws[<<queue_type, i>>].pc = "none"}

\* The pool after create_task(worker_loop(...)) for count new workers.
Spawned(ws, queue_type, count) ==
    LET free == FreeSlots(ws, queue_type)
        new == {i \in free : Cardinality({j \in free : j < i}) < count}
    IN [w \in WorkerIds |->
          IF w[1] = queue_type /\ w[2] \in new
          THEN [NoWorker EXCEPT !.pc = "created"]
          ELSE ws[w]]

NewIds(ws, queue_type, count) ==
    {w \in WorkerIds : w[1] = queue_type /\ ws[w].pc = "none"
                       /\ Spawned(ws, queue_type, count)[w].pc = "created"}

StartWorkers(queue_type, num_workers) ==
    /\ pool_calls < MaxPoolCalls
    /\ pool_calls' = pool_calls + 1
    /\ Cardinality(FreeSlots(workers, queue_type)) >= WorkerCount(num_workers)
    /\ workers' = Spawned(workers, queue_type, WorkerCount(num_workers))
    /\ worker_tasks' = worker_tasks \cup NewIds(workers, queue_type, WorkerCount(num_workers))
    /\ UNCHANGED <<executor_vars, tracker_vars, caller_vars, interpreter_vars>>
    /\ UNCHANGED <<queues, repo_queues, task_handlers, completed_tasks,
                   failed_tasks, running, task, enq, taken, attempts, wait>>

RECURSIVE SpawnedAll(_, _)
SpawnedAll(ws, i) ==
    IF i > Len(QueueTypeOrder) THEN ws
    ELSE SpawnedAll(Spawned(ws, QueueTypeOrder[i], WorkerCount(0)), i + 1)

StartAllWorkers ==
    /\ pool_calls < MaxPoolCalls
    /\ pool_calls' = pool_calls + 1
    /\ \A q \in QueueType : Cardinality(FreeSlots(workers, q)) >= WorkerCount(0)
    /\ running' = TRUE
    /\ workers' = SpawnedAll(workers, 1)
    /\ worker_tasks' = worker_tasks \cup
           {w \in WorkerIds : workers[w].pc = "none" /\ SpawnedAll(workers, 1)[w].pc = "created"}
    /\ UNCHANGED <<executor_vars, tracker_vars, caller_vars, interpreter_vars>>
    /\ UNCHANGED <<queues, repo_queues, task_handlers, completed_tasks,
                   failed_tasks, task, enq, taken, attempts, wait>>

\* A cancel that leaves the routine running where it was.
CancelledKeepsRunning(wk) == wk

\* A worker routine after task.cancel(): one that never ran leaves no trace,
\* one that had finished stays finished, any other ends where it was suspended.
Cancelled(wk) ==
    IF wk.pc = "created" THEN NoWorker
    ELSE IF wk.pc = "exited" THEN wk
    ELSE [wk EXCEPT !.pc = "cancelled"]

\* stop_workers; a call that finds the pool stopped and empty changes nothing.
StopWorkers ==
    /\ running \/ worker_tasks # {}
    /\ pool_calls < MaxPoolCalls
    /\ pool_calls' = pool_calls + 1
    /\ running' = FALSE
    /\ workers' = [w \in WorkerIds |->
                     IF w \in worker_tasks THEN Cancelled(workers[w]) ELSE workers[w]]
    /\ worker_tasks' = {}
    /\ UNCHANGED <<executor_vars, tracker_vars, caller_vars, interpreter_vars>>
    /\ UNCHANGED <<queues, repo_queues, task_handlers, completed_tasks,
                   failed_tasks, task, enq, taken, attempts, wait>>

\* ------------------------------------------------------------------ Next
\* The repo_name arguments the callers pass with a queue type: enqueue reads
\* repo_name only when queue_type is REPO_SPECIFIC.
\* The queue_type arguments the callers pass to enqueue.
EnqueueTypes == {"general", "repo_specific"}

\* The queue_type arguments the callers pass to start_workers.
StartTypes == {"general"}

RepoArgs(queue_type) ==
    IF queue_type = "repo_specific" THEN Repos \cup {NoRepo} ELSE {NoRepo}

Next ==
    \/ \E ty \in TaskType : RegisterHandler(ty)
    \/ \E t \in Tasks, q \in EnqueueTypes : \E r \in RepoArgs(q) : Enqueue(t, q, r)
    \/ \E t \in Tasks : EnqueueResume(t)
    \/ \E q \in QueueType : Dequeue(q)
    \/ \E w \in WorkerIds : WorkerStart(w)
    \/ \E w \in WorkerIds : WorkerDequeue(w)
    \/ \E w \in WorkerIds : HandlerReturn(w)
    \/ \E w \in WorkerIds : HandlerRaise(w)
    \/ \E w \in WorkerIds : RetryResume(w)
    \/ \E q \in StartTypes, n \in 0..1 : StartWorkers(q, n)
    \/ StartAllWorkers
    \/ StopWorkers

Spec == Init /\ [][Next]_vars


\* ------------------------------------------------------------------ get_queue_stats
\* The list comprehension [t for t in history if t.status == status].
RECURSIVE CountStatus(_, _)
CountStatus(history, status) ==
    IF history = <<>> THEN 0
    ELSE (IF task[Head(history)].status = status THEN 1 ELSE 0)
         + CountStatus(Tail(history), status)

\* get_queue_stats(queue_type): pending from the live queue of that type,
\* completed and failed from the two histories of the dispatcher.
GetQueueStats(queue_type) ==
    LET completed == CountStatus(completed_tasks, "completed")
        failed == CountStatus(failed_tasks, "failed")
    IN [pending_tasks |-> Len(queues[queue_type]),
        processing_tasks |-> Cardinality({w \in WorkerIds :
                                 workers[w].registered /\ workers[w].current_task # None}),
        completed_tasks |-> completed,
        failed_tasks |-> failed,
        total_tasks |-> Len(queues[queue_type]) + completed + failed]

\* ------------------------------------------------------------------ helpers of the properties
Range(seq) == {seq[i] : i \in 1..Len(seq)}

Occurrences(seq, x) == Cardinality({i \in 1..Len(seq) : seq[i] = x})

\* Every queue of the dispatcher, shared or per repository, by name.
QueueNames == QueueType \cup DOMAIN repo_queues

ItemsOf(name) == IF name \in QueueType THEN queues[name] ELSE repo_queues[name]

InAnyQueue(t) == \E name \in QueueNames : t \in Range(ItemsOf(name))

\* The workers whose current task is t.
Holders(t) == {w \in WorkerIds : workers[w].current_task = t}

\* ------------------------------------------------------------------ C1
\* C1: calling enqueue while the target queue (shared or per repository)
\* holds its capacity returns False at once, the task is not added and the
\* queues are unchanged.
C1_FullQueueReturnsFalse ==
    [][\A t \in Tasks, q \in QueueType : \A r \in RepoArgs(q) :
          (Enqueue(t, q, r) /\ TargetFull(q, r))
          => /\ enq'[t].call = "false"
             /\ queues' = queues
             /\ repo_queues' = repo_queues]_vars

\* ------------------------------------------------------------------ C3
\* A task that ended FAILED because its handler raised (every attempt of such
\* a task has raised: a handler that returns completes the task).
FailedByException(t) ==
    task[t].status = "failed" /\ task[t].error = "exception"

\* C3: a task whose handler raises on every attempt has its handler invoked
\* exactly max_retries times and then is FAILED with retries = max_retries,
\* once in the failed history, in no queue, and it is never executed again.
C3_AlwaysFailingTask ==
    /\ [](\A t \in Tasks :
             /\ attempts[t] <= task[t].max_retries
             /\ FailedByException(t) =>
                  /\ attempts[t] = task[t].max_retries
                  /\ task[t].retries = task[t].max_retries
                  /\ Occurrences(failed_tasks, t) = 1
                  /\ ~InAnyQueue(t)
                  /\ Holders(t) = {})
    /\ [][\A t \in Tasks :
             FailedByException(t) =>
                 /\ attempts'[t] = attempts[t]
                 /\ task'[t] = task[t]
                 /\ ~InAnyQueue(t)']_vars

\* A task has failed on every one of max_retries >= 2 attempts.
C3_Witness ==
    \E t \in Tasks :
        /\ FailedByException(t)
        /\ task[t].max_retries >= 2
        /\ attempts[t] = task[t].max_retries

\* ------------------------------------------------------------------ C4
\* A task that process_task failed for want of a handler.
FailedNoHandler(t) == task[t].error = "no_handler"

\* C4: process_task on a task whose type has no handler returns False (the
\* worker counts a failure) with the task FAILED, retries not incremented,
\* the task appended to the failed history and on no queue, whatever its
\* type and max_retries; it is not retried afterwards.
C4_MissingHandlerIsTerminal ==
    /\ [][\A w \in WorkerIds, t \in Tasks :
             (WorkerDequeue(w) /\ t = DequeueResult(w[1])
                               /\ ~HasHandler(task[t].task_type))
             => /\ task'[t].status = "failed"
                /\ task'[t].retries = task[t].retries
                /\ failed_tasks' = Append(failed_tasks, t)
                /\ ~InAnyQueue(t)'
                /\ workers'[w].tasks_failed = workers[w].tasks_failed + 1
                /\ workers'[w].tasks_completed = workers[w].tasks_completed]_vars
    /\ [](\A t \in Tasks :
             FailedNoHandler(t) =>
                 /\ task[t].status = "failed"
                 /\ task[t].retries = 0
                 /\ attempts[t] = 0
                 /\ Occurrences(failed_tasks, t) = 1
                 /\ ~InAnyQueue(t)
                 /\ Holders(t) = {})

\* Tasks of both types and of different max_retries have failed for want of
\* a handler.
C4_Witness ==
    \E t, u \in Tasks :
        /\ FailedNoHandler(t) /\ FailedNoHandler(u)
        /\ task[t].task_type # task[u].task_type
        /\ task[t].max_retries # task[u].max_retries

\* ------------------------------------------------------------------ C6
\* The retry of process_task has put t on GENERAL at least once.
Requeued(t) ==
    \/ attempts[t] >= 2
    \/ /\ attempts[t] = 1
       /\ task[t].retries = 1
       /\ task[t].max_retries > 1
       /\ Holders(t) = {}

\* The distinct tasks ever successfully enqueued to the shared queue of a
\* type: by a caller's enqueue that returned True, or by a retry's enqueue.
EverEnqueued(queue_type) ==
    {t \in Tasks : \/ /\ enq[t].call = "true"
                      /\ enq[t].queue_type = queue_type
                      /\ ~RoutesToRepo(enq[t].queue_type, enq[t].repo_name)
                   \/ queue_type = "general" /\ Requeued(t)}

\* No task is in flight: no worker holds one, no direct dequeue has taken one.
NothingInFlight ==
    /\ \A w \in WorkerIds : workers[w].current_task = None
    /\ taken = {}

\* C6: for every queue type, whenever no task is in flight, the completed,
\* failed and pending counts of get_queue_stats add up to the number of
\* distinct tasks ever successfully enqueued to that queue type.
C6_StatsAddUp ==
    \A q \in QueueType :
        NothingInFlight =>
            GetQueueStats(q).completed_tasks + GetQueueStats(q).failed_tasks
              + GetQueueStats(q).pending_tasks
            = Cardinality(EverEnqueued(q))

\* ------------------------------------------------------------------ C7
\* C7: no two workers have the same task as current task, and a task a
\* worker holds is on no queue, also while the retry re-enqueues it.
C7_ExclusiveOwnership ==
    \A t \in Tasks :
        /\ Cardinality(Holders(t)) <= 1
        /\ Holders(t) # {} => ~InAnyQueue(t)

\* Two workers of one queue type hold tasks at once, one of them a task
\* that has been retried, while a third task waits in the queue.
C7_Witness ==
    \E w, v \in WorkerIds :
        /\ w # v /\ w[1] = v[1]
        /\ workers[w].current_task # None
        /\ workers[v].current_task # None
        /\ task[workers[w].current_task].retries >= 1
        /\ queues[w[1]] # <<>>

\* ------------------------------------------------------------------ C8
\* The place of x in a queue, 0 when it is not there.
Pos(items, x) ==
    IF x \in Range(items) THEN CHOOSE i \in 1..Len(items) : items[i] = x ELSE 0

\* One step keeps a queue first-in first-out: a task placed in the step goes
\* behind every task already there, tasks that stay keep their order, and a
\* task leaves only together with every task placed before it.
FifoStep(old, new) ==
    /\ \A a \in Range(old) \cap Range(new), x \in Range(new) \ Range(old) :
           Pos(new, a) < Pos(new, x)
    /\ \A a, b \in Range(old) :
           Pos(old, a) < Pos(old, b) =>
               /\ b \notin Range(new) => a \notin Range(new)
               /\ (a \in Range(new) /\ b \in Range(new))
                    => Pos(new, a) < Pos(new, b)

\* The task a step hands to a worker or to a direct dequeue call from the
\* shared queue of a type is the one at the head of that queue.
HandsOverHead(queue_type) ==
    \A t \in Range(queues[queue_type]) :
        t \notin Range(queues'[queue_type]) => t = Head(queues[queue_type])

\* C8: within one queue dequeue order is first-in first-out under every
\* interleaving of enqueuers and workers, a retried task counting as placed
\* when it is re-enqueued.
C8_QueueIsFifo ==
    [][/\ \A q \in QueueType : FifoStep(queues[q], queues'[q]) /\ HandsOverHead(q)
       /\ \A r \in DOMAIN repo_queues : FifoStep(repo_queues[r], repo_queues'[r])]_vars

\* A retried task has been placed behind a task enqueued after its first
\* placement, on a queue the workers are serving.
C8_Witness ==
    \E q \in QueueType :
        /\ Len(queues[q]) = 2
        /\ task[queues[q][2]].retries >= 1
        /\ task[queues[q][1]].retries = 0
        /\ \E w \in WorkerIds : w[1] = q /\ workers[w].pc = "idle"

\* ------------------------------------------------------------------ C9
\* The dispatcher holds t alone: t sits where its enqueue put it, untouched,
\* and no other task has been handed to the dispatcher.
HoldsOnly(t) ==
    /\ enq[t].call = "true"
    /\ InAnyQueue(t)
    /\ attempts[t] = 0
    /\ \A u \in Tasks \ {t} : enq[u].call = "none"

\* C9: if enqueue(task, qt, repo) returns True on an otherwise empty
\* dispatcher, the next dequeue(qt) returns that task, every field as it was
\* before the enqueue.
C9_RoundTrip ==
    \A t \in Tasks :
        HoldsOnly(t) =>
            /\ DequeueResult(enq[t].queue_type) = t
            /\ task[t] = NewTask(t)

\* ------------------------------------------------------------------ C10
\* The status changes one uninterrupted run of dispatcher code may make to a
\* task under the declared state machine; process_task goes through
\* IN_PROGRESS before FAILED, and through FAILED before the retry's QUEUED.
DeclaredChange(old, new, may_retry) ==
    \/ old = new
    \/ old = "pending" /\ new = "queued"
    \/ old = "queued" /\ new \in {"in_progress", "failed"}
    \/ old = "in_progress" /\ new \in {"completed", "failed", "cancelled"}
    \/ old = "in_progress" /\ new = "queued" /\ may_retry

\* C10: every status change the dispatcher makes follows the declared state
\* machine, a task sitting in a queue has status QUEUED, and a task enters
\* IN_PROGRESS only from QUEUED.
C10_StatusMachine ==
    [][\A t \in Tasks :
          /\ DeclaredChange(task[t].status, task'[t].status,
                            task'[t].retries < task'[t].max_retries)
          /\ InAnyQueue(t)' => task'[t].status = "queued"]_vars

\* ------------------------------------------------------------------ C2
\* A handler that raises on its first k attempts with k < max_retries and
\* succeeds afterwards: it raises only while the raise leaves a retry.
HandlerRaiseWithRetryLeft(w) ==
    /\ workers[w].pc = "handler"
    /\ task[workers[w].current_task].retries + 1
         < task[workers[w].current_task].max_retries
    /\ HandlerRaise(w)

\* The steps of one worker routine; the event loop runs every routine that
\* is ready, and an awaited handler finishes.
WorkerStep(w) ==
    \/ WorkerStart(w)
    \/ WorkerDequeue(w)
    \/ HandlerReturn(w)
    \/ HandlerRaiseWithRetryLeft(w)
    \/ RetryResume(w)

\* The dispatcher with its pool started once by start_all_workers and never
\* stopped, callers that only enqueue, and handlers that fail fewer than
\* max_retries times.
LiveNext ==
    \/ \E ty \in TaskType : RegisterHandler(ty)
    \/ \E t \in Tasks, q \in EnqueueTypes : \E r \in RepoArgs(q) : Enqueue(t, q, r)
    \/ \E t \in Tasks : EnqueueResume(t)
    \/ \E w \in WorkerIds : WorkerStep(w)
    \/ ~running /\ StartAllWorkers

LiveSpec ==
    /\ Init
    /\ [][LiveNext]_vars
    /\ \A w \in WorkerIds : WF_vars(WorkerStep(w))
    /\ \A t \in Tasks : WF_vars(EnqueueResume(t))

\* C2: a task on the shared queue of any type, with the pool running and a
\* handler registered that raises fewer than max_retries times, eventually
\* is COMPLETED and in the completed history.
C2_RetriedTaskCompletes ==
    \A t \in Tasks :
        (/\ running
         /\ HasHandler(task[t].task_type)
         /\ \E q \in QueueType : t \in Range(queues[q]))
        ~> (task[t].status = "completed" /\ t \in Range(completed_tasks))

\* ------------------------------------------------------------------ wait_for_completion
\* _all_tasks_done, the test of one poll: every shared and repository queue
\* empty and no registered worker with a current task.
AllTasksDone ==
    /\ \A q \in QueueType : queues[q] = <<>>
    /\ \A r \in DOMAIN repo_queues : repo_queues[r] = <<>>
    /\ \A w \in WorkerIds : workers[w].registered => workers[w].current_task = None

\* No routine is ready to run: a sleep of one second elapses only after the
\* event loop has run the routines that were ready.
LoopIdle ==
    /\ \A w \in WorkerIds :
          /\ workers[w].pc # "created"
          /\ ~(workers[w].pc = "idle" /\ running /\ queues[w[1]] # <<>>)
          /\ workers[w].pc # "delivering"
          /\ ~(workers[w].pc = "putting" /\ ~TargetFull(DefaultQueueType, NoRepo))
    /\ \A t \in Tasks :
          ~(enq[t].call = "blocked" /\ ~TargetFull(enq[t].queue_type, enq[t].repo_name))

\* A caller calls wait_for_completion(timeout).
WaitBegin ==
    /\ wait.state = "idle"
    /\ wait' = [state |-> "polling", polls |-> 0]
    /\ UNCHANGED <<executor_vars, tracker_vars, caller_vars, interpreter_vars>>
    /\ UNCHANGED <<queues, repo_queues, task_handlers, completed_tasks,
                   failed_tasks, running, workers, worker_tasks, task, enq,
                   taken, attempts, pool_calls>>

\* One poll of _all_tasks_done: the test succeeds and the routine ends, or
\* it sleeps one second, or the timeout of wait_for ends the wait with False.
WaitPoll ==
    /\ wait.state = "polling"
    /\ IF AllTasksDone
       THEN wait' = [wait EXCEPT !.state = "satisfied"]
       ELSE /\ LoopIdle
            /\ wait' = IF wait.polls < WaitTimeout
                       THEN [wait EXCEPT !.polls = @ + 1]
                       ELSE [wait EXCEPT !.state = "false"]
    /\ UNCHANGED <<executor_vars, tracker_vars, caller_vars, interpreter_vars>>
    /\ UNCHANGED <<queues, repo_queues, task_handlers, completed_tasks,
                   failed_tasks, running, workers, worker_tasks, task, enq,
                   taken, attempts, pool_calls>>

\* wait_for hands the result of the finished _all_tasks_done to its caller
\* and wait_for_completion returns True.  asyncio.wait_for of Python 3.11
\* runs _all_tasks_done as a task of its own and is woken through the event
\* loop, so routines that are ready run between the poll and the return;
\* since 3.12 it awaits the routine directly and returns in the same step.
WaitReturn ==
    /\ wait.state = "satisfied"
    /\ wait' = [wait EXCEPT !.state = "true"]
    /\ UNCHANGED <<executor_vars, tracker_vars, caller_vars, interpreter_vars>>
    /\ UNCHANGED <<queues, repo_queues, task_handlers, completed_tasks,
                   failed_tasks, running, workers, worker_tasks, task, enq,
                   taken, attempts, pool_calls>>

\* ------------------------------------------------------------------ C5
PoolEmpty == \A w \in WorkerIds : workers[w].pc = "none"

Enqueued == {t \in Tasks : enq[t].call = "true"}

\* The scenario: handlers registered, then tasks 1, 2, ... enqueued on
\* GENERAL of an empty dispatcher, then the pool started by one call, then
\* wait_for_completion; the handlers always succeed.
ScenarioEnqueue(t) ==
    /\ PoolEmpty
    /\ \A u \in Tasks : u < t <=> u \in Enqueued
    /\ HasHandler(task[t].task_type)
    /\ ~TargetFull("general", NoRepo)
    /\ Enqueue(t, "general", NoRepo)

ScenarioStartWorkers ==
    /\ PoolEmpty /\ Enqueued # {}
    /\ StartWorkers("general", 1)

ScenarioStartAllWorkers ==
    /\ PoolEmpty /\ Enqueued # {}
    /\ StartAllWorkers

ScenarioWaitBegin == ~PoolEmpty /\ WaitBegin

ScenarioNext ==
    \/ \E ty \in TaskType : PoolEmpty /\ RegisterHandler(ty)
    \/ \E t \in Tasks : ScenarioEnqueue(t)
    \/ ScenarioStartWorkers
    \/ ScenarioStartAllWorkers
    \/ \E w \in WorkerIds : WorkerStart(w)
    \/ \E w \in WorkerIds : WorkerDequeue(w)
    \/ \E w \in WorkerIds : HandlerReturn(w)
    \/ ScenarioWaitBegin
    \/ WaitPoll
    \/ WaitReturn

ScenarioSpec == Init /\ [][ScenarioNext]_vars

\* The pool was started by start_workers(GENERAL, 1) alone.
OneGeneralWorker ==
    \A w \in WorkerIds : workers[w].pc # "none" <=> w = <<"general", 1>>

\* C5: after n tasks are enqueued on GENERAL of an empty dispatcher with an
\* always-succeeding handler and one worker is started with
\* start_workers(GENERAL, 1), wait_for_completion returns True and the
\* completed history holds the n tasks in enqueue order.
C5_ScenarioCompletes ==
    (OneGeneralWorker /\ wait.state \in {"true", "false"})
    => /\ wait.state = "true"
       /\ completed_tasks = [i \in 1..Cardinality(Enqueued) |-> i]

\* ------------------------------------------------------------------ TaskStatusTracker
\* register_task: the tracker keeps a reference to the caller's Task.
RegisterTask(t) ==
    /\ t \notin active_tasks
    /\ active_tasks' = active_tasks \cup {t}
    /\ UNCHANGED <<executor_vars, caller_vars, interpreter_vars>>
    /\ UNCHANGED <<queues, repo_queues, task_handlers, completed_tasks,
                   failed_tasks, running, workers, worker_tasks, task, enq,
                   taken, attempts, wait, pool_calls>>

\* The Task after update_status(task_id, status, details, result): the status
\* is assigned whatever the old one was, then the fields of the branch.
Updated(tk, status) ==
    IF status = "in_progress" THEN [tk EXCEPT !.status = status, !.started_at = TRUE]
    ELSE IF status = "completed"
         THEN [tk EXCEPT !.status = status, !.completed_at = TRUE, !.result = TRUE]
    ELSE IF status = "failed"
         THEN [tk EXCEPT !.status = status, !.completed_at = TRUE, !.error = "details"]
    ELSE [tk EXCEPT !.status = status]

\* update_status on a registered task (on an unknown id it changes nothing).
UpdateStatus(t, status) ==
    /\ t \in active_tasks
    /\ task' = [task EXCEPT ![t] = Updated(@, status)]
    /\ UNCHANGED <<executor_vars, tracker_vars, caller_vars, interpreter_vars>>
    /\ UNCHANGED <<queues, repo_queues, task_handlers, completed_tasks,
                   failed_tasks, running, workers, worker_tasks, enq,
                   taken, attempts, wait, pool_calls>>

\* cancel_task
CancelTask(t) == UpdateStatus(t, "cancelled")

\* The Task after retry_task: one more retry, PENDING, error and both
\* timestamps cleared; retries is not compared with max_retries.
Retried(tk) ==
    [tk EXCEPT !.retries = @ + 1, !.status = "pending", !.error = "null",
               !.started_at = FALSE, !.completed_at = FALSE]

\* retry_task on a registered task that is FAILED.
RetryTask(t) ==
    /\ t \in active_tasks
    /\ task[t].status = "failed"
    /\ task[t].retries < RetryCap
    /\ task' = [task EXCEPT ![t] = Retried(@)]
    /\ UNCHANGED <<executor_vars, tracker_vars, caller_vars, interpreter_vars>>
    /\ UNCHANGED <<queues, repo_queues, task_handlers, completed_tasks,
                   failed_tasks, running, workers, worker_tasks, enq,
                   taken, attempts, wait, pool_calls>>

\* The statuses the callers pass to update_status.
StatusArgs == {"in_progress", "completed", "failed"}

\* The tracker and the dispatcher working on the same Task objects: the
\* callers register their tasks, enqueue them on GENERAL, start the pool
\* once, and call the tracker at any time.  The tracked tasks never fill
\* GENERAL, so the retry's put does not wait.
TrackerNext ==
    \/ \E t \in TrackedTasks : RegisterTask(t)
    \/ \E t \in TrackedTasks, st \in StatusArgs : UpdateStatus(t, st)
    \/ \E t \in TrackedTasks : CancelTask(t)
    \/ \E t \in TrackedTasks : RetryTask(t)
    \/ \E t \in TrackedTasks : RegisterHandler(task[t].task_type)
    \/ \E t \in TrackedTasks : Enqueue(t, "general", NoRepo)
    \/ ~running /\ pool_calls = 0 /\ StartAllWorkers
    \/ \E w \in WorkerIds : WorkerStart(w)
    \/ \E w \in WorkerIds : WorkerDequeue(w)
    \/ \E w \in WorkerIds : HandlerReturn(w)
    \/ \E w \in WorkerIds : HandlerRaise(w)
    \/ \E w \in WorkerIds : HandlerRaiseValidation(w)

TrackerSpec == Init /\ [][TrackerNext]_vars

NonTerminal == {"pending", "queued", "in_progress"}

Terminal == {"completed", "failed", "cancelled"}

\* ------------------------------------------------------------------ C11
\* C11: in every state reachable by process_task and by the tracker's
\* update_status and retry_task, a task whose status is PENDING, QUEUED or
\* IN_PROGRESS has retries <= max_retries.
C11_RetriesWithinMax ==
    \A t \in Tasks :
        task[t].status \in NonTerminal => task[t].retries <= task[t].max_retries

\* ------------------------------------------------------------------ C12
\* C12: completed_at is set only while the status is COMPLETED, FAILED or
\* CANCELLED, and started_at becomes set only in a step that takes the task
\* to IN_PROGRESS (process_task without a handler goes on to FAILED within
\* the same step).
C12_TimestampsFollowStatus ==
    /\ [](\A t \in Tasks : task[t].completed_at => task[t].status \in Terminal)
    /\ [][\A t \in Tasks :
             (task'[t].started_at /\ ~task[t].started_at)
             => \/ task'[t].status = "in_progress"
                \/ task'[t].status = "failed" /\ task'[t].error = "no_handler"]_vars

\* ------------------------------------------------------------------ C13
\* C13: the first validation error a handler raises in process_task leaves
\* the task FAILED, appended to the failed history and on no queue, not
\* re-enqueued, whatever its retries and max_retries.
C13_ValidationErrorIsTerminal ==
    [][\A w \in WorkerIds, t \in Tasks :
          (HandlerRaiseValidation(w) /\ t = workers[w].current_task)
          => /\ task'[t].status = "failed"
             /\ failed_tasks' = Append(failed_tasks, t)
             /\ ~InAnyQueue(t)'
             /\ workers'[w].pc # "putting"]_vars

\* ------------------------------------------------------------------ C14
\* C14: a WorkerInfo record exists only for a worker of the current pool;
\* after stop_workers the workers map is empty, so that neither
\* get_worker_status, the processing count of get_queue_stats nor the idle
\* check of wait_for_completion sees a worker of a stopped pool.
C14_WorkerInfoFollowsPool ==
    \A w \in WorkerIds : workers[w].registered => w \in worker_tasks

\* ------------------------------------------------------------------ C20
\* The step in which process_task's retry completes its enqueue for task t
\* held by worker w: the raise itself when GENERAL has a free slot, else the
\* resumption of the put that waited.
RetryCompletes(w, t) ==
    /\ t = workers[w].current_task
    /\ \/ /\ HandlerRaise(w)
          /\ ShouldRetry(task[t].retries + 1, task[t].max_retries)
          /\ workers'[w].pc # "putting"
       \/ RetryResume(w)

\* C20: when a handler raises and retries + 1 < max_retries, process_task
\* leaves the task QUEUED with the exception text as error and appended to the
\* tail of the shared GENERAL queue, whatever queue it came from; neither
\* history and no other queue changes.
C20_RetryGoesToGeneral ==
    [][\A w \in WorkerIds, t \in Tasks :
          RetryCompletes(w, t)
          => /\ task'[t].status = "queued"
             /\ task'[t].error = "exception"
             /\ queues'["general"] = Append(queues["general"], t)
             /\ \A q \in QueueType \ {"general"} : queues'[q] = queues[q]
             /\ repo_queues' = repo_queues
             /\ completed_tasks' = completed_tasks
             /\ failed_tasks' = failed_tasks]_vars

\* A task first enqueued with queue type REPO_SPECIFIC has been retried and
\* sits at the tail of GENERAL behind another task.
C20_Witness ==
    \E t \in Tasks :
        /\ enq[t].queue_type = "repo_specific"
        /\ task[t].status = "queued" /\ task[t].retries >= 1
        /\ Len(queues["general"]) >= 2
        /\ queues["general"][Len(queues["general"])] = t

\* ------------------------------------------------------------------ C15
\* wait_for_completion beside a running dispatcher: callers enqueue, the
\* pool is started once by start_all_workers, the handlers return or raise.
WaitNext ==
    \/ \E ty \in TaskType : RegisterHandler(ty)
    \/ \E t \in Tasks, q \in EnqueueTypes : \E r \in RepoArgs(q) : Enqueue(t, q, r)
    \/ \E t \in Tasks : EnqueueResume(t)
    \/ ~running /\ StartAllWorkers
    \/ \E w \in WorkerIds : WorkerStart(w)
    \/ \E w \in WorkerIds : WorkerDequeue(w)
    \/ \E w \in WorkerIds : HandlerReturn(w)
    \/ \E w \in WorkerIds : HandlerRaise(w)
    \/ \E w \in WorkerIds : RetryResume(w)
    \/ \E w \in WorkerIds : DequeueGet(w)
    \/ \E w \in WorkerIds : DequeueDeliver(w)
    \/ WaitBegin
    \/ WaitPoll
    \/ WaitReturn

WaitSpec == Init /\ [][WaitNext]_vars

\* Every shared and per-repository queue is empty and no worker in the
\* workers map has a current task.
QuietNow ==
    /\ \A name \in QueueNames : ItemsOf(name) = <<>>
    /\ \A w \in WorkerIds : workers[w].registered => workers[w].current_task = None

\* C15: wait_for_completion returns True only at a poll where every queue is
\* empty and no worker has a current task, never while some queue is
\* non-empty, and returns False only when the timeout elapses at a poll that
\* did not find that condition.
C15_WaitReturnsWhenQuiet ==
    [][/\ (wait.state = "polling" /\ wait'.state = "satisfied") => QuietNow
       /\ (wait.state # "true" /\ wait'.state = "true") => QuietNow
       /\ (wait.state # "false" /\ wait'.state = "false")
            => (~QuietNow /\ wait.polls = WaitTimeout)]_vars

\* ------------------------------------------------------------------ get_pending_tasks
\* The items the while loop takes from one queue: from the head, until the
\* queue is empty or temp_list holds limit items.
Drained(items, limit) == SubSeq(items, 1, Min(Len(items), limit))

\* One queue after the loop has taken its items and `for task in temp_list:
\* q.put(task)` has put them back: behind the items that were not taken.
\* (As written the put is awaited inside a def that is not async, which
\* Python rejects when it compiles the module; the put of a queue that has
\* just been drained finds a free slot and does not wait.)
PutBack(items, limit) ==
    SubSeq(items, Len(Drained(items, limit)) + 1, Len(items)) \o Drained(items, limit)

\* tasks: what the loops over QueueType appended, queue after queue.
RECURSIVE DrainedFrom(_, _)
DrainedFrom(i, limit) ==
    IF i > Len(QueueTypeOrder) THEN <<>>
    ELSE Drained(queues[QueueTypeOrder[i]], limit) \o DrainedFrom(i + 1, limit)

\* return tasks[:limit]
GetPendingTasksResult(limit) ==
    SubSeq(DrainedFrom(1, limit), 1, Min(Len(DrainedFrom(1, limit)), limit))

\* get_pending_tasks(limit): the shared queues only, one after the other.
GetPendingTasks(limit) ==
    /\ queues' = [q \in QueueType |-> PutBack(queues[q], limit)]
    /\ peek' = [limit |-> limit, result |-> GetPendingTasksResult(limit)]
    /\ UNCHANGED <<executor_vars, tracker_vars, scan, interpreter_vars>>
    /\ UNCHANGED <<repo_queues, task_handlers, completed_tasks, failed_tasks,
                   running, workers, worker_tasks, task, enq, taken, attempts,
                   wait, pool_calls>>

\* ------------------------------------------------------------------ get_next_task
\* A default order that also scans the REPO_SPECIFIC queue.
DefaultPriorityWithRepo == <<"repo_specific", "critical", "general", "background">>

\* priority or [CRITICAL, GENERAL, BACKGROUND]
DefaultPriority == <<"critical", "general", "background">>

\* The orders the callers pass; the empty one stands for None and for [].
PriorityArgs == {<<>>, <<"general", "critical">>, <<"repo_specific">>}

\* A caller calls get_next_task(priority).
GetNextTaskBegin(priority) ==
    /\ scan.state \in {"idle", "done"}
    /\ scan' = [state |-> "scanning", priority |-> priority,
                order |-> IF priority = <<>> THEN DefaultPriority ELSE priority,
                result |-> None]
    /\ UNCHANGED <<executor_vars, tracker_vars, peek, interpreter_vars>>
    /\ UNCHANGED <<queues, repo_queues, task_handlers, completed_tasks,
                   failed_tasks, running, workers, worker_tasks, task, enq,
                   taken, attempts, wait, pool_calls>>

\* One pass of the for loop: dequeue of the next queue type of the order
\* returns its head, which get_next_task returns, or times out on an empty
\* queue after one second and the loop goes on; after the last it returns None.
GetNextTaskScan ==
    /\ scan.state = "scanning"
    /\ LET queue_type == Head(scan.order)
           t == DequeueResult(queue_type)
       IN IF t # None
          THEN /\ queues' = [queues EXCEPT ![queue_type] = QueueRest(@)]
               /\ taken' = taken \cup {t}
               /\ scan' = [scan EXCEPT !.state = "done", !.result = t]
          ELSE /\ scan' = [scan EXCEPT !.order = Tail(@),
                                       !.state = IF Tail(scan.order) = <<>>
                                                 THEN "done" ELSE "scanning"]
               /\ UNCHANGED <<queues, taken>>
    /\ UNCHANGED <<executor_vars, tracker_vars, peek, interpreter_vars>>
    /\ UNCHANGED <<repo_queues, task_handlers, completed_tasks, failed_tasks,
                   running, workers, worker_tasks, task, enq, attempts, wait,
                   pool_calls>>

\* ------------------------------------------------------------------ the query operations
\* The queue_type arguments the callers of the query operations enqueue with.
QueryEnqueueTypes == {"critical", "general", "repo_specific"}

\* Callers that enqueue and query a dispatcher whose pool is not started.
QueryNext ==
    \/ \E t \in Tasks, q \in QueryEnqueueTypes : \E r \in RepoArgs(q) : Enqueue(t, q, r)
    \/ \E t \in Tasks : EnqueueResume(t)
    \/ \E limit \in 1..MaxLimit : GetPendingTasks(limit)
    \/ \E priority \in PriorityArgs : GetNextTaskBegin(priority)
    \/ GetNextTaskScan

QuerySpec == Init /\ [][QueryNext]_vars

\* ------------------------------------------------------------------ C16
\* C16: get_pending_tasks(limit) is a peek: for every limit >= 1, also one
\* smaller than a queue's size, each queue holds the same tasks in the same
\* order after the call as before, and the returned list has at most limit
\* tasks, all of which were queued.
C16_PendingTasksIsPeek ==
    [][\A limit \in 1..MaxLimit :
          GetPendingTasks(limit)
          => /\ queues' = queues
             /\ repo_queues' = repo_queues
             /\ Len(peek'.result) <= limit
             /\ \A t \in Range(peek'.result) : InAnyQueue(t)]_vars

\* ------------------------------------------------------------------ C17
\* The queue types a call with the default order may take a task from.
ScannedByDefault == {"critical", "general", "background"}

\* C17: each pass of get_next_task asks the next queue type of the given
\* order (default CRITICAL, GENERAL, BACKGROUND); the call returns the head
\* of the first queue that has an item, removing only that task and leaving
\* every other queue unchanged; it returns none only after every queue of
\* the order yielded nothing; with the default order no task of the
\* REPO_SPECIFIC queue or of a repository queue is returned.
C17_NextTaskByPriority ==
    [][GetNextTaskScan
       => LET q == Head(scan.order) IN
          /\ repo_queues' = repo_queues
          /\ \A o \in QueueType \ {q} : queues'[o] = queues[o]
          /\ IF queues[q] # <<>>
             THEN /\ scan'.state = "done"
                  /\ scan'.result = Head(queues[q])
                  /\ queues'[q] = Tail(queues[q])
                  /\ scan.priority = <<>>
                       => /\ q \in ScannedByDefault
                          /\ enq[scan'.result].queue_type # "repo_specific"
             ELSE /\ queues'[q] = queues[q]
                  /\ scan'.result = None
                  /\ scan'.order = Tail(scan.order)
                  /\ scan'.state = "done" <=> Len(scan.order) = 1]_vars

\* A default-order call has returned the head of GENERAL, after CRITICAL
\* yielded nothing, while GENERAL held a second task and the REPO_SPECIFIC
\* queue and a repository queue held tasks too.
C17_Witness ==
    /\ scan.state = "done" /\ scan.result # None
    /\ scan.order = <<"general", "background">>
    /\ enq[scan.result].queue_type = "general"
    /\ queues["general"] # <<>>
    /\ \/ queues["repo_specific"] # <<>>
       \/ \E r \in DOMAIN repo_queues : repo_queues[r] # <<>>

\* ------------------------------------------------------------------ create_task: the id
\* Digits of strftime('%Y%m%d%H%M%S').
StampWidth == 14

\* Least number of digits of the format {:04d}.
CounterWidth == 4

\* The decimal digits of n, most significant first.
RECURSIVE DigitsOf(_)
DigitsOf(n) == IF n < 10 THEN <<n>> ELSE Append(DigitsOf(n \div 10), n % 10)

\* Zero padding on the left up to width; a longer number is not cut.
Padded(digits, width) ==
    IF Len(digits) >= width THEN digits
    ELSE [i \in 1..(width - Len(digits)) |-> 0] \o digits

\* f"task-{utcnow:%Y%m%d%H%M%S}-{counter:04d}": the two numbers of the id.
TaskId(now, counter) ==
    [stamp |-> Padded(DigitsOf(now), StampWidth),
     number |-> Padded(DigitsOf(counter), CounterWidth)]

\* A second passes.
Tick ==
    /\ clock < MaxClock
    /\ clock' = clock + 1
    /\ UNCHANGED <<executor_vars, tracker_vars, caller_vars, task_counter, ids, command, parsed>>
    /\ UNCHANGED <<queues, repo_queues, task_handlers, completed_tasks,
                   failed_tasks, running, workers, worker_tasks, task, enq,
                   taken, attempts, wait, pool_calls>>

\* create_task on the interpreter instance i: its own counter goes up by one
\* and the id is made of the current second and that counter.  (interpret,
\* which it calls first, changes nothing.)
CreateTask(i) ==
    /\ Len(ids) < MaxCreateCalls
    /\ task_counter' = [task_counter EXCEPT ![i] = @ + 1]
    /\ ids' = Append(ids, TaskId(clock, task_counter[i] + 1))
    /\ UNCHANGED <<executor_vars, tracker_vars, caller_vars, clock, command, parsed>>
    /\ UNCHANGED <<queues, repo_queues, task_handlers, completed_tasks,
                   failed_tasks, running, workers, worker_tasks, task, enq,
                   taken, attempts, wait, pool_calls>>

\* ------------------------------------------------------------------ interpret
\* INTENT_PATTERNS, in the order of the dict: each pattern is the text of a
\* regular expression, kept here character by character.
INTENT_PATTERNS ==
    <<
      [intent_type |-> "add_test", patterns |-> <<
         \* (?:add|create|write|implement)\s+(?:a\s+)?test
         <<"(", "?", ":", "a", "d", "d", "|", "c", "r", "e", "a", "t", "e", "|", "w", "r", "i", "t", "e", "|", "i", "m", "p", "l", "e", "m", "e", "n", "t", ")", "\\", "s", "+", "(", "?", ":", "a", "\\", "s", "+", ")", "?", "t", "e", "s", "t">>,
         \* test\s+(?:the\s+)?(?:file|function|class|module)
         <<"t", "e", "s", "t", "\\", "s", "+", "(", "?", ":", "t", "h", "e", "\\", "s", "+", ")", "?", "(", "?", ":", "f", "i", "l", "e", "|", "f", "u", "n", "c", "t", "i", "o", "n", "|", "c", "l", "a", "s", "s", "|", "m", "o", "d", "u", "l", "e", ")">>,
         \* (?:add|create)\s+(?:unit\s+)?test
         <<"(", "?", ":", "a", "d", "d", "|", "c", "r", "e", "a", "t", "e", ")", "\\", "s", "+", "(", "?", ":", "u", "n", "i", "t", "\\", "s", "+", ")", "?", "t", "e", "s", "t">>,
         \* write\s+(?:unit\s+)?test
         <<"w", "r", "i", "t", "e", "\\", "s", "+", "(", "?", ":", "u", "n", "i", "t", "\\", "s", "+", ")", "?", "t", "e", "s", "t">>,
         \* spec
         <<"s", "p", "e", "c">>>>],
      [intent_type |-> "fix_bug", patterns |-> <<
         \* fix\s+(?:the\s+)?(?:bug|error|issue|problem)
         <<"f", "i", "x", "\\", "s", "+", "(", "?", ":", "t", "h", "e", "\\", "s", "+", ")", "?", "(", "?", ":", "b", "u", "g", "|", "e", "r", "r", "o", "r", "|", "i", "s", "s", "u", "e", "|", "p", "r", "o", "b", "l", "e", "m", ")">>,
         \* resolve\s+(?:the\s+)?(?:bug|error|issue)
         <<"r", "e", "s", "o", "l", "v", "e", "\\", "s", "+", "(", "?", ":", "t", "h", "e", "\\", "s", "+", ")", "?", "(", "?", ":", "b", "u", "g", "|", "e", "r", "r", "o", "r", "|", "i", "s", "s", "u", "e", ")">>,
         \* (?:debug|debugging)
         <<"(", "?", ":", "d", "e", "b", "u", "g", "|", "d", "e", "b", "u", "g", "g", "i", "n", "g", ")">>,
         \* repair\s+(?:the\s+)?
         <<"r", "e", "p", "a", "i", "r", "\\", "s", "+", "(", "?", ":", "t", "h", "e", "\\", "s", "+", ")", "?">>>>],
      [intent_type |-> "add_feature", patterns |-> <<
         \* (?:add|create|implement|build)\s+(?:a\s+)?(?:new\s+)?feature
         <<"(", "?", ":", "a", "d", "d", "|", "c", "r", "e", "a", "t", "e", "|", "i", "m", "p", "l", "e", "m", "e", "n", "t", "|", "b", "u", "i", "l", "d", ")", "\\", "s", "+", "(", "?", ":", "a", "\\", "s", "+", ")", "?", "(", "?", ":", "n", "e", "w", "\\", "s", "+", ")", "?", "f", "e", "a", "t", "u", "r", "e">>,
         \* (?:add|create|implement)\s+(?:a\s+)?(?:new\s+)?function
         <<"(", "?", ":", "a", "d", "d", "|", "c", "r", "e", "a", "t", "e", "|", "i", "m", "p", "l", "e", "m", "e", "n", "t", ")", "\\", "s", "+", "(", "?", ":", "a", "\\", "s", "+", ")", "?", "(", "?", ":", "n", "e", "w", "\\", "s", "+", ")", "?", "f", "u", "n", "c", "t", "i", "o", "n">>,
         \* (?:add|create|implement)\s+(?:a\s+)?(?:new\s+)?endpoint
         <<"(", "?", ":", "a", "d", "d", "|", "c", "r", "e", "a", "t", "e", "|", "i", "m", "p", "l", "e", "m", "e", "n", "t", ")", "\\", "s", "+", "(", "?", ":", "a", "\\", "s", "+", ")", "?", "(", "?", ":", "n", "e", "w", "\\", "s", "+", ")", "?", "e", "n", "d", "p", "o", "i", "n", "t">>,
         \* build\s+(?:a\s+)?(?:new\s+)?
         <<"b", "u", "i", "l", "d", "\\", "s", "+", "(", "?", ":", "a", "\\", "s", "+", ")", "?", "(", "?", ":", "n", "e", "w", "\\", "s", "+", ")", "?">>,
         \* create\s+(?:a\s+)?(?:new\s+)?
         <<"c", "r", "e", "a", "t", "e", "\\", "s", "+", "(", "?", ":", "a", "\\", "s", "+", ")", "?", "(", "?", ":", "n", "e", "w", "\\", "s", "+", ")", "?">>>>],
      [intent_type |-> "update_docs", patterns |-> <<
         \* (?:update|add|create|write)\s+(?:the\s+)?(?:project\s+)?doc
         <<"(", "?", ":", "u", "p", "d", "a", "t", "e", "|", "a", "d", "d", "|", "c", "r", "e", "a", "t", "e", "|", "w", "r", "i", "t", "e", ")", "\\", "s", "+", "(", "?", ":", "t", "h", "e", "\\", "s", "+", ")", "?", "(", "?", ":", "p", "r", "o", "j", "e", "c", "t", "\\", "s", "+", ")", "?", "d", "o", "c">>,
         \* (?:update|add|create)\s+readme
         <<"(", "?", ":", "u", "p", "d", "a", "t", "e", "|", "a", "d", "d", "|", "c", "r", "e", "a", "t", "e", ")", "\\", "s", "+", "r", "e", "a", "d", "m", "e">>,
         \* (?:document|documenting)
         <<"(", "?", ":", "d", "o", "c", "u", "m", "e", "n", "t", "|", "d", "o", "c", "u", "m", "e", "n", "t", "i", "n", "g", ")">>,
         \* (?:add|create)\s+(?:some\s+)?doc
         <<"(", "?", ":", "a", "d", "d", "|", "c", "r", "e", "a", "t", "e", ")", "\\", "s", "+", "(", "?", ":", "s", "o", "m", "e", "\\", "s", "+", ")", "?", "d", "o", "c">>>>],
      [intent_type |-> "refactor", patterns |-> <<
         \* refactor
         <<"r", "e", "f", "a", "c", "t", "o", "r">>,
         \* (?:clean|clean up|cleanup)\s+(?:the\s+)?(?:code)?
         <<"(", "?", ":", "c", "l", "e", "a", "n", "|", "c", "l", "e", "a", "n", " ", "u", "p", "|", "c", "l", "e", "a", "n", "u", "p", ")", "\\", "s", "+", "(", "?", ":", "t", "h", "e", "\\", "s", "+", ")", "?", "(", "?", ":", "c", "o", "d", "e", ")", "?">>,
         \* improve\s+(?:the\s+)?(?:code\s+)?(?:quality)?
         <<"i", "m", "p", "r", "o", "v", "e", "\\", "s", "+", "(", "?", ":", "t", "h", "e", "\\", "s", "+", ")", "?", "(", "?", ":", "c", "o", "d", "e", "\\", "s", "+", ")", "?", "(", "?", ":", "q", "u", "a", "l", "i", "t", "y", ")", "?">>,
         \* restructur
         <<"r", "e", "s", "t", "r", "u", "c", "t", "u", "r">>,
         \* optimiz
         <<"o", "p", "t", "i", "m", "i", "z">>>>],
      [intent_type |-> "code_review", patterns |-> <<
         \* (?:review|analyze|check|examine)\s+(?:the\s+)?(?:code|repo)
         <<"(", "?", ":", "r", "e", "v", "i", "e", "w", "|", "a", "n", "a", "l", "y", "z", "e", "|", "c", "h", "e", "c", "k", "|", "e", "x", "a", "m", "i", "n", "e", ")", "\\", "s", "+", "(", "?", ":", "t", "h", "e", "\\", "s", "+", ")", "?", "(", "?", ":", "c", "o", "d", "e", "|", "r", "e", "p", "o", ")">>,
         \* (?:perform|do)\s+(?:a\s+)?(?:code\s+)?review
         <<"(", "?", ":", "p", "e", "r", "f", "o", "r", "m", "|", "d", "o", ")", "\\", "s", "+", "(", "?", ":", "a", "\\", "s", "+", ")", "?", "(", "?", ":", "c", "o", "d", "e", "\\", "s", "+", ")", "?", "r", "e", "v", "i", "e", "w">>,
         \* assess\s+(?:the\s+)?
         <<"a", "s", "s", "e", "s", "s", "\\", "s", "+", "(", "?", ":", "t", "h", "e", "\\", "s", "+", ")", "?">>>>],
      [intent_type |-> "run_tests", patterns |-> <<
         \* (?:run|execute|start)\s+(?:the\s+)?test
         <<"(", "?", ":", "r", "u", "n", "|", "e", "x", "e", "c", "u", "t", "e", "|", "s", "t", "a", "r", "t", ")", "\\", "s", "+", "(", "?", ":", "t", "h", "e", "\\", "s", "+", ")", "?", "t", "e", "s", "t">>,
         \* test\s+(?:the\s+)?(?:application|project|code)
         <<"t", "e", "s", "t", "\\", "s", "+", "(", "?", ":", "t", "h", "e", "\\", "s", "+", ")", "?", "(", "?", ":", "a", "p", "p", "l", "i", "c", "a", "t", "i", "o", "n", "|", "p", "r", "o", "j", "e", "c", "t", "|", "c", "o", "d", "e", ")">>,
         \* pytest
         <<"p", "y", "t", "e", "s", "t">>>>],
      [intent_type |-> "deploy", patterns |-> <<
         \* (?:deploy|deployment|release)
         <<"(", "?", ":", "d", "e", "p", "l", "o", "y", "|", "d", "e", "p", "l", "o", "y", "m", "e", "n", "t", "|", "r", "e", "l", "e", "a", "s", "e", ")">>,
         \* (?:push\s+to|ship)
         <<"(", "?", ":", "p", "u", "s", "h", "\\", "s", "+", "t", "o", "|", "s", "h", "i", "p", ")">>,
         \* (?:put\s+into|go\s+live)
         <<"(", "?", ":", "p", "u", "t", "\\", "s", "+", "i", "n", "t", "o", "|", "g", "o", "\\", "s", "+", "l", "i", "v", "e", ")">>>>],
      [intent_type |-> "create_pr", patterns |-> <<
         \* (?:create|make)\s+(?:a\s+)?(?:pull\s+)?request
         <<"(", "?", ":", "c", "r", "e", "a", "t", "e", "|", "m", "a", "k", "e", ")", "\\", "s", "+", "(", "?", ":", "a", "\\", "s", "+", ")", "?", "(", "?", ":", "p", "u", "l", "l", "\\", "s", "+", ")", "?", "r", "e", "q", "u", "e", "s", "t">>,
         \* (?:create|make)\s+(?:a\s+)?pr
         <<"(", "?", ":", "c", "r", "e", "a", "t", "e", "|", "m", "a", "k", "e", ")", "\\", "s", "+", "(", "?", ":", "a", "\\", "s", "+", ")", "?", "p", "r">>,
         \* (?:submit|open)\s+(?:a\s+)?(?:pull\s+)?request
         <<"(", "?", ":", "s", "u", "b", "m", "i", "t", "|", "o", "p", "e", "n", ")", "\\", "s", "+", "(", "?", ":", "a", "\\", "s", "+", ")", "?", "(", "?", ":", "p", "u", "l", "l", "\\", "s", "+", ")", "?", "r", "e", "q", "u", "e", "s", "t">>>>],
      [intent_type |-> "merge_pr", patterns |-> <<
         \* (?:merge|combine|squash)\s+(?:the\s+)?(?:pr|pull\s+request)
         <<"(", "?", ":", "m", "e", "r", "g", "e", "|", "c", "o", "m", "b", "i", "n", "e", "|", "s", "q", "u", "a", "s", "h", ")", "\\", "s", "+", "(", "?", ":", "t", "h", "e", "\\", "s", "+", ")", "?", "(", "?", ":", "p", "r", "|", "p", "u", "l", "l", "\\", "s", "+", "r", "e", "q", "u", "e", "s", "t", ")">>,
         \* (?:merge|combine)\s+(?:the\s+)?(?:branch|code)
         <<"(", "?", ":", "m", "e", "r", "g", "e", "|", "c", "o", "m", "b", "i", "n", "e", ")", "\\", "s", "+", "(", "?", ":", "t", "h", "e", "\\", "s", "+", ")", "?", "(", "?", ":", "b", "r", "a", "n", "c", "h", "|", "c", "o", "d", "e", ")">>>>]
    >>

\* PRIORITY_INDICATORS, in the order of the dict.
PRIORITY_INDICATORS ==
    <<
      [priority |-> "critical", indicators |-> <<
         \* critical
         <<"c", "r", "i", "t", "i", "c", "a", "l">>,
         \* urgent
         <<"u", "r", "g", "e", "n", "t">>,
         \* asap
         <<"a", "s", "a", "p">>,
         \* immediately
         <<"i", "m", "m", "e", "d", "i", "a", "t", "e", "l", "y">>,
         \* emergency
         <<"e", "m", "e", "r", "g", "e", "n", "c", "y">>>>],
      [priority |-> "high", indicators |-> <<
         \* important
         <<"i", "m", "p", "o", "r", "t", "a", "n", "t">>,
         \* soon
         <<"s", "o", "o", "n">>,
         \* high priority
         <<"h", "i", "g", "h", " ", "p", "r", "i", "o", "r", "i", "t", "y">>,
         \* must
         <<"m", "u", "s", "t">>>>],
      [priority |-> "medium", indicators |-> <<
         \* should
         <<"s", "h", "o", "u", "l", "d">>,
         \* would be nice
         <<"w", "o", "u", "l", "d", " ", "b", "e", " ", "n", "i", "c", "e">>,
         \* when possible
         <<"w", "h", "e", "n", " ", "p", "o", "s", "s", "i", "b", "l", "e">>,
         \* medium
         <<"m", "e", "d", "i", "u", "m">>>>],
      [priority |-> "low", indicators |-> <<
         \* low priority
         <<"l", "o", "w", " ", "p", "r", "i", "o", "r", "i", "t", "y">>,
         \* eventually
         <<"e", "v", "e", "n", "t", "u", "a", "l", "l", "y">>,
         \* sometime
         <<"s", "o", "m", "e", "t", "i", "m", "e">>,
         \* nice to have
         <<"n", "i", "c", "e", " ", "t", "o", " ", "h", "a", "v", "e">>>>]
    >>

\* The command phrase: fix the bug
FixTheBug == <<"f", "i", "x", " ", "t", "h", "e", " ", "b", "u", "g">>

\* The command phrase: in auth.py (after a blank)
InAuthPy == <<" ", "i", "n", " ", "a", "u", "t", "h", ".", "p", "y">>

\* The command phrase: urgently (after a blank)
Urgently == <<" ", "u", "r", "g", "e", "n", "t", "l", "y">>

\* The command phrase: Resolve the issue
ResolveTheIssue == <<"R", "e", "s", "o", "l", "v", "e", " ", "t", "h", "e", " ", "i", "s", "s", "u", "e">>

\* The command phrase: write spec (after a blank)
WriteSpec == <<" ", "w", "r", "i", "t", "e", " ", "s", "p", "e", "c">>

\* The text of the third FIX_BUG pattern, typed as a command.
FixBugPatternText == <<"(", "?", ":", "d", "e", "b", "u", "g", "|", "d", "e", "b", "u", "g", "g", "i", "n", "g", ")">>

\* The file name auth.py
AuthPy == <<"a", "u", "t", "h", ".", "p", "y">>

\* The extensions of the four file patterns.
DotPy == <<".", "p", "y">>

DotJs == <<".", "j", "s">>

DotTs == <<".", "t", "s">>

DotGo == <<".", "g", "o">>

\* str.lower(): the upper-case letters and, below, their lower-case forms.
UpperCase == <<"A", "B", "C", "D", "E", "F", "G", "H", "I", "J", "K", "L", "M", "N", "O", "P", "Q", "R", "S", "T", "U", "V", "W", "X", "Y", "Z">>

LowerCase == <<"a", "b", "c", "d", "e", "f", "g", "h", "i", "j", "k", "l", "m", "n", "o", "p", "q", "r", "s", "t", "u", "v", "w", "x", "y", "z">>

\* The characters other than letters and digits of the class [a-zA-Z0-9/_.-].
PathPunctuation == <<"/", "_", ".", "-">>

Digits == <<"0", "1", "2", "3", "4", "5", "6", "7", "8", "9">>

\* str.lower() of one character.
LowerChar(c) ==
    IF \E i \in 1..Len(UpperCase) : UpperCase[i] = c
    THEN LowerCase[CHOOSE i \in 1..Len(UpperCase) : UpperCase[i] = c]
    ELSE c

\* command.lower()
Lower(text) == [i \in 1..Len(text) |-> LowerChar(text[i])]

\* Python's `part in text` on strings: part occurs as a substring.
Contains(text, part) ==
    \E i \in 1..(Len(text) - Len(part) + 1) :
        SubSeq(text, i, i + Len(part) - 1) = part

\* One entry of a table has an element that is a substring of the text.
AnyIn(texts, text) == \E k \in 1..Len(texts) : Contains(text, texts[k])

\* _detect_intent: the first intent type, in table order, one of whose
\* pattern texts occurs in the command as a substring; else GENERAL.
DetectIntent(text) ==
    IF \E j \in 1..Len(INTENT_PATTERNS) : AnyIn(INTENT_PATTERNS[j].patterns, text)
    THEN INTENT_PATTERNS[CHOOSE j \in 1..Len(INTENT_PATTERNS) :
            /\ AnyIn(INTENT_PATTERNS[j].patterns, text)
            /\ \A h \in 1..(j - 1) : ~AnyIn(INTENT_PATTERNS[h].patterns, text)
         ].intent_type
    ELSE "general"

\* _detect_priority: the first priority, in table order, one of whose
\* indicators occurs in the lowered command; else MEDIUM.
DetectPriority(text) ==
    IF \E j \in 1..Len(PRIORITY_INDICATORS) :
           AnyIn(PRIORITY_INDICATORS[j].indicators, Lower(text))
    THEN PRIORITY_INDICATORS[CHOOSE j \in 1..Len(PRIORITY_INDICATORS) :
            /\ AnyIn(PRIORITY_INDICATORS[j].indicators, Lower(text))
            /\ \A h \in 1..(j - 1) :
                   ~AnyIn(PRIORITY_INDICATORS[h].indicators, Lower(text))
         ].priority
    ELSE "medium"

\* The character class [a-zA-Z0-9/_.-] of the file patterns.
InPathClass(c) ==
    \/ \E i \in 1..Len(LowerCase) : LowerCase[i] = c \/ UpperCase[i] = c
    \/ \E i \in 1..Len(Digits) : Digits[i] = c
    \/ \E i \in 1..Len(PathPunctuation) : PathPunctuation[i] = c

\* The maximal runs of class characters of the text, as <<first, last>>.
PathRuns(text) ==
    {r \in (1..Len(text)) \X (1..Len(text)) :
        /\ r[1] <= r[2]
        /\ \A i \in r[1]..r[2] : InPathClass(text[i])
        /\ r[1] = 1 \/ ~InPathClass(text[r[1] - 1])
        /\ r[2] = Len(text) \/ ~InPathClass(text[r[2] + 1])}

\* Where a match of ([a-zA-Z0-9/_.-]+<ext>) can end inside a run: at an
\* occurrence of the extension, any case, with a character before it.
ExtensionEnds(text, r, ext) ==
    {e \in r[1]..r[2] :
        /\ e - Len(ext) >= r[1]
        /\ Lower(SubSeq(text, e - Len(ext) + 1, e)) = ext}

\* re.findall of one extension pattern: the class is greedy, so the match of
\* a run starts at its first character and ends at its last occurrence of
\* the extension.
FindExtension(text, ext) ==
    {SubSeq(text, r[1], CHOOSE e \in ExtensionEnds(text, r, ext) :
                            \A f \in ExtensionEnds(text, r, ext) : f <= e) :
        r \in {x \in PathRuns(text) : ExtensionEnds(text, x, ext) # {}}}

\* _extract_file_paths, the four extension patterns (.py, .js, .ts, .go); the
\* patterns on the words "in" and "file" add the word that follows them.
ExtractFilePaths(text) ==
    FindExtension(text, DotPy) \cup FindExtension(text, DotJs)
      \cup FindExtension(text, DotTs) \cup FindExtension(text, DotGo)

\* interpret: intent from the lowered command, priority, file paths from the
\* command as typed.
InterpretResult(text) ==
    [task_type |-> DetectIntent(Lower(text)),
     priority |-> DetectPriority(Lower(text)),
     target_files |-> ExtractFilePaths(text)]

\* The phrases the callers make their commands of.
Phrases ==
    {FixTheBug, InAuthPy, Urgently, ResolveTheIssue, WriteSpec, FixBugPatternText}

\* A caller types one more phrase of the command.
Type(phrase) ==
    /\ Len(command) + Len(phrase) <= MaxCommandLen
    /\ command' = command \o phrase
    /\ parsed' = NotParsed
    /\ UNCHANGED <<executor_vars, tracker_vars, caller_vars, task_counter, clock, ids>>
    /\ UNCHANGED <<queues, repo_queues, task_handlers, completed_tasks,
                   failed_tasks, running, workers, worker_tasks, task, enq,
                   taken, attempts, wait, pool_calls>>

\* interpret(command)
Interpret ==
    /\ command # <<>>
    /\ parsed = NotParsed
    /\ parsed' = InterpretResult(command)
    /\ UNCHANGED <<executor_vars, tracker_vars, caller_vars, task_counter, clock, ids, command>>
    /\ UNCHANGED <<queues, repo_queues, task_handlers, completed_tasks,
                   failed_tasks, running, workers, worker_tasks, task, enq,
                   taken, attempts, wait, pool_calls>>

\* ------------------------------------------------------------------ the interpreter
IdNext ==
    \/ Tick
    \/ \E i \in Interpreters : CreateTask(i)

IdSpec == Init /\ [][IdNext]_vars

InterpretNext ==
    \/ \E phrase \in Phrases : Type(phrase)
    \/ Interpret

InterpretSpec == Init /\ [][InterpretNext]_vars

\* ------------------------------------------------------------------ C18
\* C18: any two create_task calls of one process, at any times and on any
\* TaskInterpreter instances, return different ids, each made of a stamp of
\* 14 digits and a number of 4 digits.
C18_IdsNeverCollide ==
    /\ \A i, j \in 1..Len(ids) : i # j => ids[i] # ids[j]
    /\ \A i \in 1..Len(ids) : Len(ids[i].stamp) = 14 /\ Len(ids[i].number) = 4

\* ------------------------------------------------------------------ C19
\* Phrases the FIX_BUG expressions match when used as regular expressions.
FixBugTriggers == {FixTheBug, Lower(ResolveTheIssue)}

\* Phrases an expression of ADD_TEST, the only intent before FIX_BUG in the
\* table, matches.
EarlierTriggers == {Lower(WriteSpec)}

\* C19: a command that contains a FIX_BUG trigger phrase and no trigger
\* phrase of an earlier entry of the intent table is interpreted as FIX_BUG;
\* "fix the bug in auth.py urgently" gives FIX_BUG, CRITICAL and target files
\* that contain auth.py.
C19_FixBugIntent ==
    parsed # NotParsed =>
        /\ ((\E ph \in FixBugTriggers : Contains(Lower(command), ph))
             /\ ~(\E ph \in EarlierTriggers : Contains(Lower(command), ph)))
            => parsed.task_type = "fix_bug"
        /\ command = FixTheBug \o InAuthPy \o Urgently
            => /\ parsed.task_type = "fix_bug"
               /\ parsed.priority = "critical"
               /\ AuthPy \in parsed.target_files

\* ------------------------------------------------------------------ C21
\* Task t was being executed by a worker when stop_workers cancelled it.
StrandedInHandler(t) ==
    \E w \in WorkerIds :
        /\ workers[w].pc = "cancelled"
        /\ workers[w].current_task = t
        /\ task[t].status = "in_progress"

\* C21: stop_workers called while a worker awaits a task's handler ends that
\* worker and rolls nothing back: the task stays IN_PROGRESS forever, in no
\* queue, in neither history, its retries unchanged, never executed again.
C21_CancelledInHandlerStaysInProgress ==
    /\ [][\A w \in WorkerIds :
             (StopWorkers /\ w \in worker_tasks /\ workers[w].pc = "handler")
             => /\ workers'[w].pc = "cancelled"
                /\ workers'[w].current_task = workers[w].current_task
                /\ task' = task]_vars
    /\ [](\A t \in Tasks :
             StrandedInHandler(t) =>
                 /\ ~InAnyQueue(t)
                 /\ t \notin Range(completed_tasks) \cup Range(failed_tasks))
    /\ [][\A t \in Tasks :
             StrandedInHandler(t) =>
                 /\ task'[t] = task[t]
                 /\ attempts'[t] = attempts[t]
                 /\ StrandedInHandler(t)']_vars

\* A task was cancelled in its handler on its second attempt while another
\* task was waiting in the queue.
C21_Witness ==
    \E t \in Tasks :
        /\ StrandedInHandler(t)
        /\ task[t].retries >= 1
        /\ \E q \in QueueType : queues[q] # <<>>

\* ------------------------------------------------------------------ C22
\* The task whose handler never returns.
StalledTask == 2

\* A handler other than the stalled one comes to its end.
LiveHandlerReturn(w) ==
    /\ workers[w].current_task # StalledTask
    /\ HandlerReturn(w)

LiveHandlerRaise(w) ==
    /\ workers[w].current_task # StalledTask
    /\ HandlerRaise(w)

\* The steps the event loop owes a worker routine: it runs a routine that is
\* ready, and a handler that does not stall finishes.
StallStep(w) ==
    \/ WorkerStart(w)
    \/ WorkerDequeue(w)
    \/ LiveHandlerReturn(w)
    \/ RetryResume(w)

\* Two workers on GENERAL (start_all_workers, then start_workers(GENERAL, 1)),
\* callers that enqueue on GENERAL, and one task whose handler stalls.
StallNext ==
    \/ \E ty \in TaskType : RegisterHandler(ty)
    \/ \E t \in AllTasks : Enqueue(t, "general", NoRepo)
    \/ \E t \in AllTasks : EnqueueResume(t)
    \/ ~running /\ StartAllWorkers
    \/ running /\ StartWorkers("general", 1)
    \/ \E w \in WorkerIds : StallStep(w)
    \/ \E w \in WorkerIds : LiveHandlerRaise(w)

StallSpec ==
    /\ Init
    /\ [][StallNext]_vars
    /\ \A w \in WorkerIds : WF_vars(StallStep(w))
    /\ \A t \in AllTasks : WF_vars(EnqueueResume(t))

\* The worker routines of a queue type that have started and not ended.
LiveWorkers(queue_type) ==
    {w \in WorkerIds : w[1] = queue_type
                       /\ workers[w].pc \in {"idle", "handler", "putting"}}

\* C22: with two or more workers running on one queue type, one of them in
\* a handler that never returns, every other task placed on that queue is
\* eventually dequeued and processed by the remaining workers, and no worker
\* ends while the running flag holds.
C22_StallBlocksOnlyItsWorker ==
    /\ \A t \in AllTasks \ {StalledTask} :
          (/\ running
           /\ Cardinality(LiveWorkers("general")) >= 2
           /\ HasHandler(task[t].task_type)
           /\ t \in Range(queues["general"]))
          ~> (task[t].status \in {"completed", "failed"})
    /\ [][\A w \in WorkerIds :
             (running /\ running' /\ workers[w].pc \in {"idle", "handler", "putting"})
             => workers'[w].pc \in {"idle", "handler", "putting"}]_vars

\* ------------------------------------------------------------------ C23
\* TaskExecutor (executor.py).
MaxExecuteCalls == 3

\* The task types execute is called with: one whose handler checks the
\* repository, one whose handler only returns, one with no entry in the
\* handler table, and GENERAL.
ExecutedTypes == {"fix_bug", "run_tests", "deploy", "general"}

\* The keys of the handler table of _get_handler.
HandledTypes ==
    {"add_test", "fix_bug", "add_feature", "update_docs", "refactor",
     "code_review", "run_tests", "create_pr", "merge_pr", "general"}

\* _get_handler: handlers.get(task_type, self._handle_general); a handler is
\* named by the task type of its table entry.
GetHandler(task_type) ==
    IF task_type \in HandledTypes THEN task_type ELSE "general"

\* The Task objects execute is called with.
ExecutorTasks ==
    [id : Tasks, task_type : ExecutedTypes, repository : Repos \cup {NoRepo}]

\* What self.openai._call_api may raise.
ApiErrors == {"api error"}

\* The exception texts a handler can raise for a task.
HandlerErrors(handler, tk) ==
    CASE handler = "fix_bug" ->
            IF tk.repository = NoRepo
            THEN {"Repository not specified for bug fix"}
            ELSE ApiErrors
      [] handler = "run_tests" -> {}
      [] OTHER -> ApiErrors

\* Whether the handler can reach its return statement for the task.
HandlerCanReturn(handler, tk) ==
    ~(handler = "fix_bug" /\ tk.repository = NoRepo)

\* The dict a handler returns.
HandlerResult(handler) ==
    CASE handler = "fix_bug" -> [output |-> "Bug fix analysis: response"]
      [] handler = "run_tests" -> [output |-> "Test execution requested"]
      [] OTHER -> [output |-> "response"]

\* The ExecutionResult of the try branch of execute.
SuccessResult(tk, result) ==
    [task_id |-> tk.id, success |-> TRUE, output |-> result.output,
     files_created |-> <<>>, files_modified |-> <<>>, pr_created |-> None,
     error |-> "null"]

FailureResultKeepsOutput(tk, e) ==
    [task_id |-> tk.id, success |-> FALSE, output |-> "Completed",
     files_created |-> <<>>, files_modified |-> <<>>, pr_created |-> None,
     error |-> e]

\* The ExecutionResult of the except branch of execute.
FailureResult(tk, e) ==
    [task_id |-> tk.id, success |-> FALSE, output |-> "",
     files_created |-> <<>>, files_modified |-> <<>>, pr_created |-> None,
     error |-> e]

\* execute up to the await of the handler: the handler is looked up and
\* invoked.
Execute(tk) ==
    /\ UNCHANGED <<tracker_vars, caller_vars, interpreter_vars>>
    /\ UNCHANGED <<queues, repo_queues, task_handlers, completed_tasks,
                   failed_tasks, running, workers, worker_tasks, task, enq,
                   taken, attempts, wait, pool_calls>>
    /\ execution.state = "idle"
    /\ Len(executions) < MaxExecuteCalls
    /\ execution' = [state |-> "handler", task |-> tk,
                     handler |-> GetHandler(tk.task_type),
                     invoked |-> execution.invoked + 1]
    /\ UNCHANGED executions

\* What execute leaves behind when it returns: the call is over, and the
\* caller has the ExecutionResult.
Returned(returned, raised, result) ==
    /\ executions' = Append(executions,
                            [task |-> execution.task,
                             handler |-> execution.handler,
                             invoked |-> execution.invoked,
                             returned |-> returned, raised |-> raised,
                             result |-> result])
    /\ execution' = [state |-> "idle", task |-> None, invoked |-> 0]

\* The handler returns its dict: the rest of the try branch.
ExecuteHandlerReturn ==
    /\ UNCHANGED <<tracker_vars, caller_vars, interpreter_vars>>
    /\ UNCHANGED <<queues, repo_queues, task_handlers, completed_tasks,
                   failed_tasks, running, workers, worker_tasks, task, enq,
                   taken, attempts, wait, pool_calls>>
    /\ execution.state = "handler"
    /\ HandlerCanReturn(execution.handler, execution.task)
    /\ Returned(TRUE, "null",
                SuccessResult(execution.task, HandlerResult(execution.handler)))

\* The handler raises an Exception: the except branch.
ExecuteHandlerRaise(e) ==
    /\ UNCHANGED <<tracker_vars, caller_vars, interpreter_vars>>
    /\ UNCHANGED <<queues, repo_queues, task_handlers, completed_tasks,
                   failed_tasks, running, workers, worker_tasks, task, enq,
                   taken, attempts, wait, pool_calls>>
    /\ execution.state = "handler"
    /\ e \in HandlerErrors(execution.handler, execution.task)
    /\ Returned(FALSE, e, FailureResult(execution.task, e))

ExecutorNext ==
    \/ \E tk \in ExecutorTasks : Execute(tk)
    \/ ExecuteHandlerReturn
    \/ \E e \in ApiErrors \cup {"Repository not specified for bug fix"} :
          ExecuteHandlerRaise(e)

ExecutorSpec == Init /\ [][ExecutorNext]_vars

\* C23: execute invokes the handler of the task's type exactly once and
\* always returns an ExecutionResult: success is true exactly when the
\* handler returned, and when the handler raised, success is false, error is
\* the exception text and the output and both file lists are empty; execute
\* changes no retry counter, status, queue or history.
C23_ExecuteReportsOnceNoRetry ==
    /\ [](\A i \in 1..Len(executions) :
             LET x == executions[i] IN
             /\ x.invoked = 1
             /\ x.handler = GetHandler(x.task.task_type)
             /\ x.result.task_id = x.task.id
             /\ x.result.success <=> x.returned
             /\ x.returned => x.result.error = "null"
             /\ ~x.returned =>
                   /\ x.result.error = x.raised
                   /\ x.result.output = ""
                   /\ x.result.files_created = <<>>
                   /\ x.result.files_modified = <<>>)
    /\ [][executor_vars' # executor_vars =>
             UNCHANGED <<task, attempts, queues, repo_queues, completed_tasks,
                         failed_tasks, workers>>]_vars
    /\ [][execution.state = "handler" =>
             execution'.state = "idle" /\ Len(executions') = Len(executions) + 1]_vars

\* An execute call whose handler raised, one whose handler returned, and
\* one that fell back to the GENERAL handler have all returned.
C23_Witness ==
    /\ \E i \in 1..Len(executions) :
          ~executions[i].returned /\ ~executions[i].result.success
    /\ \E i \in 1..Len(executions) :
          executions[i].returned /\ executions[i].result.success
    /\ \E i \in 1..Len(executions) :
          executions[i].task.task_type = "deploy"

\* ------------------------------------------------------------------ C24
\* Every live GENERAL worker is suspended in the retry's put while GENERAL
\* still holds tasks.
GeneralPoolBlocked ==
    /\ LiveWorkers("general") # {}
    /\ \A w \in LiveWorkers("general") : workers[w].pc = "putting"
    /\ queues["general"] # <<>>

\* C24: a worker whose handler raised always finishes process_task, the
\* retry's put on GENERAL included, and is back in its dequeue loop; and in no
\* reachable state is every GENERAL worker blocked while GENERAL holds tasks.
C24_RetryPathNeverDeadlocks ==
    /\ \A w \in WorkerIds :
          (workers[w].pc = "putting") ~> (workers[w].pc = "idle")
    /\ [](~GeneralPoolBlocked)

\* ------------------------------------------------------------------ C25
\* The steps of a worker routine whose handlers always return.
ReturnStep(w) ==
    \/ WorkerStart(w)
    \/ WorkerDequeue(w)
    \/ HandlerReturn(w)

\* The dispatcher with its pool started by start_all_workers and never
\* stopped, callers that only enqueue, and handlers that always return.
ReturnNext ==
    \/ \E ty \in TaskType : RegisterHandler(ty)
    \/ \E t \in Tasks, q \in EnqueueTypes : \E r \in RepoArgs(q) : Enqueue(t, q, r)
    \/ \E t \in Tasks : EnqueueResume(t)
    \/ \E w \in WorkerIds : ReturnStep(w)
    \/ ~running /\ StartAllWorkers

ReturnSpec ==
    /\ Init
    /\ [][ReturnNext]_vars
    /\ \A w \in WorkerIds : WF_vars(ReturnStep(w))
    /\ \A t \in Tasks : WF_vars(EnqueueResume(t))

\* C25: once start_all_workers has run and every type has a handler, with
\* handlers that always return, every task whose enqueue returned true,
\* REPO_SPECIFIC with a repository name included, is eventually dequeued by
\* a worker and reaches a terminal status.
C25_EveryEnqueuedTaskIsProcessed ==
    \A t \in Tasks :
        (/\ running
         /\ \A ty \in TaskType : HasHandler(ty)
         /\ enq[t].call = "true")
        ~> (/\ ~InAnyQueue(t)
            /\ task[t].status \in {"completed", "failed", "cancelled"})

\* ------------------------------------------------------------------ C26
\* No work is outstanding: every task whose enqueue returned True is
\* COMPLETED or terminally FAILED and in the matching history, and no worker
\* has a task it took off a queue.
NoWorkOutstanding ==
    /\ \A t \in Enqueued :
          \/ task[t].status = "completed" /\ t \in Range(completed_tasks)
          \/ task[t].status = "failed" /\ t \in Range(failed_tasks)
    /\ \A w \in WorkerIds :
          workers[w].current_task = None /\ workers[w].dequeued = None

\* C26: when wait_for_completion returns True, every task whose enqueue
\* returned True is COMPLETED or terminally FAILED and recorded in the
\* completed or failed history, and no task has been taken off a queue
\* without having been processed.
C26_TrueMeansNoWorkOutstanding ==
    [][(wait.state # "true" /\ wait'.state = "true") => NoWorkOutstanding']_vars

\* ------------------------------------------------------------------ C27
RECURSIVE SumOver(_, _)
SumOver(f, S) ==
    IF S = {} THEN 0
    ELSE LET x == CHOOSE y \in S : TRUE IN f[x] + SumOver(f, S \ {x})

\* The sums of the counters over all WorkerInfo records.
TotalCompleted ==
    SumOver([w \in WorkerIds |-> workers[w].tasks_completed], WorkerIds)

TotalFailed ==
    SumOver([w \in WorkerIds |-> workers[w].tasks_failed], WorkerIds)

\* The process_task calls that raised retries and have not returned: the
\* worker is suspended in the retry's put, or was cancelled there.
SuspendedInRetry ==
    {w \in WorkerIds :
        /\ workers[w].current_task # None
        /\ \/ workers[w].pc = "putting"
           \/ /\ workers[w].pc = "cancelled"
              /\ task[workers[w].current_task].status = "queued"}

\* The process_task calls that have returned False: one per handler
\* exception (each adds one to the task's retries) and one per task that
\* found no handler, less the calls still suspended in the retry's put.
FalseReturns ==
    SumOver([t \in Tasks |-> task[t].retries], Tasks)
      + Cardinality({t \in Tasks : FailedNoHandler(t)})
      - Cardinality(SuspendedInRetry)

\* C27: at every state, also after stop_workers has cancelled workers, the
\* sum of tasks_completed over all WorkerInfo records is the length of the
\* completed history, and the sum of tasks_failed is the number of
\* process_task calls that returned False, which is at least the length of
\* the failed history.
C27_CountersAgreeWithHistories ==
    /\ TotalCompleted = Len(completed_tasks)
    /\ TotalFailed = FalseReturns
    /\ TotalFailed >= Len(failed_tasks)

\* stop_workers has cancelled a worker after the pool completed a task and
\* failed a task once with a retry and once for good.
C27_Witness ==
    /\ ~running
    /\ \E w \in WorkerIds : workers[w].pc = "cancelled"
    /\ TotalCompleted >= 1
    /\ TotalFailed >= 2
    /\ TotalFailed > Len(failed_tasks)

\* ------------------------------------------------------------------ C28
\* C28: a task enqueued once occurs at most once in the completed and the
\* failed history together, so never in both, and a task in either history
\* is in no queue and is the current task of no worker.
C28_HistoriesRecordOnce ==
    \A t \in Tasks :
        /\ Occurrences(completed_tasks, t) + Occurrences(failed_tasks, t) <= 1
        /\ ~(t \in Range(completed_tasks) /\ t \in Range(failed_tasks))
        /\ t \in Range(completed_tasks) \cup Range(failed_tasks)
             => ~InAnyQueue(t) /\ Holders(t) = {}

\* A task that completed after a retry and a task that failed for good are
\* in the histories.
C28_Witness ==
    /\ \E t \in Range(completed_tasks) : task[t].retries >= 1
    /\ \E t \in Range(failed_tasks) : task[t].retries = task[t].max_retries

\* ------------------------------------------------------------------ C29
\* C29: a task that cancel_task set to CANCELLED while it sat in a
\* dispatcher queue is not executed: the worker that dequeues it leaves its
\* status CANCELLED, does not make it its current task and does not invoke
\* its handler.
C29_CancelledIsNeverExecuted ==
    [][\A w \in WorkerIds : \A t \in Tasks :
          (/\ t \in active_tasks
           /\ task[t].status = "cancelled"
           /\ t = DequeueResult(w[1])
           /\ WorkerDequeue(w))
          => /\ task'[t].status = "cancelled"
             /\ attempts'[t] = attempts[t]
             /\ workers'[w].current_task # t]_vars

\* ------------------------------------------------------------------ C30
\* C30: after any sequence of start_workers and start_all_workers calls the
\* number of live worker routines, the entries of worker_tasks, is at most
\* the max_workers of the constructor.
C30_PoolWithinMaxWorkers ==
    Cardinality(worker_tasks) <= max_workers

====
